---- MODULE Spec2Model ----
(***************************************************************************)
(* A model of vrischmann/my-own-redis: the incremental-rehash hash table   *)
(* (src/server/hash_map.rs) and the connection engine of the server        *)
(* (src/server/main.rs, src/shared/lib.rs), and the message codec          *)
(* (src/shared/protocol.rs).                                               *)
(*                                                                         *)
(* Option<T> is modelled as a sequence of length 0 (None) or 1 (Some).     *)
(* Vec indices are 0-based in the source and 1-based here.                 *)
(***************************************************************************)
EXTENDS Naturals, Sequences, FiniteSets, TLC

(***************************************************************************)
(* Part 1.  The hash table: src/server/hash_map.rs                         *)
(***************************************************************************)

VARIABLES map1, map2, resizing_pos,      \* SuperHashMap's fields
          nkeys, ntouch, lastOp, gone    \* the workload driving it

mapVars == <<map1, map2, resizing_pos, nkeys, ntouch, lastOp, gone>>

\* The state of the server (Part 2).
VARIABLES connections,   \* main's map fd -> Connection
          context,       \* main's Context
          cur,           \* the fd whose do_read_request loop is running, or 0
          server,        \* "running", or "panicked" or "exited" once the
                         \* process has died or main has returned
          pending,       \* per peer: the bytes it sends that are not read yet
          peer,          \* per peer: "absent", "connecting", "open", "closed"
          sent,          \* per peer: the bytes the server wrote to its socket
          script,        \* per peer: the requests it sends
          seg,           \* the segment sizes bytes arrive and leave in
          log,           \* the requests executed, in order
          raw,           \* per peer: the bytes it sends after its requests
          cause          \* per peer: why its connection was deleted

srvVars == <<connections, context, cur, server, pending, peer, sent, script,
             seg, log, raw, cause>>

\* The state of the message codec (Part 3).
VARIABLES input,     \* the buffer handed to parse_message
          origin,    \* the body, the trailing bytes and the cut it is made of
          parsed,    \* what parse_message returned, once it has
          command,   \* what Command::parse returned for the message
          writer,    \* the Writer: its buffer and pos
          pushed,    \* the values pushed so far, the last attempt included
          wphase,    \* "writing", "finished", "reading" or "panicked"
          reader,    \* the Reader over the body: its buffer and pos
          values     \* the values the Reader has returned so far

protoVars == <<input, origin, parsed, command, writer, pushed, wphase,
               reader, values>>

\* A ConnectionBuffer of connection_buffer.rs on its own (Part 4).
VARIABLES buffer,    \* the ConnectionBuffer
          call,      \* the last method called on it and what came of it
          build      \* "debug" (overflow checks on) or "release" (off)

bufVars == <<buffer, call, build>>

vars == <<mapVars, srvVars, protoVars, bufVars>>

\* No ConnectionBuffer of connection_buffer.rs is in use.
NoBuffer ==
    /\ buffer = [data |-> <<>>, read_head |-> 0, write_head |-> 0]
    /\ call = [op |-> "none"]
    /\ build = "debug"

\* parse_message has been handed nothing yet.
NoParse ==
    /\ input = <<>>
    /\ origin = [body |-> <<>>, trailing |-> <<>>, keep |-> 0]
    /\ parsed = [kind |-> "none"]
    /\ command = [kind |-> "none"]

\* No Writer and no Reader has been constructed.
NoWriter ==
    /\ writer = [buf |-> <<>>, pos |-> 0]
    /\ pushed = <<>>
    /\ wphase = "none"
    /\ reader = [buf |-> <<>>, pos |-> 0]
    /\ values = <<>>

\* The hash table is a unit of its own (main.rs keeps its keys in a
\* std::collections::HashMap): while it is exercised there is no server,
\* and while the server runs the table stays as constructed.
NoServer ==
    /\ connections = <<>>
    /\ context = [data |-> <<>>]
    /\ cur = 0
    /\ server = "none"
    /\ pending = <<>>
    /\ peer = <<>>
    /\ sent = <<>>
    /\ script = <<>>
    /\ seg = [read |-> 1, write |-> 1]
    /\ log = <<>>
    /\ raw = <<>>
    /\ cause = <<>>

\* Program constants (hash_map.rs:335-336).
MAX_RESIZING_WORK == 128
MAX_LOAD_FACTOR == 8

\* Bounds of the workload: the keys 0 .. MaxKeys-1 are inserted in order; from
\* the first re-insert or remove on, at most MaxTouch operations follow.
MaxKeys == 290
MaxTouch == 3

\* The key that is inserted again and removed. It lands in the last bucket of
\* every table of up to 32 buckets, so it is among the last to be migrated.
TouchKeys == {31}
\* Key k is first inserted with the value ValueOf(k); a re-insert stores 1 or 2.
Values == {1, 2}
\* The capacities the tests construct the table with (hash_map.rs:371, 422).
InitCapacities == {1, 4}

None == <<>>
Some(v) == <<v>>

\* DefaultHasher is a fixed function of the key; keys are numbered and the
\* number stands for the hash value.
calculate_hash(key) == key

\* hash & mask, where mask = 2^k - 1 (HashMap::new's assertion).
BucketOf(m, key) == (calculate_hash(key) % (m.mask + 1)) + 1

HashMap_new(size) ==
    [data |-> [i \in 1..size |-> <<>>], mask |-> size - 1, size |-> 0]

\* The index of the first entry of list whose key is key, 0 when there is none.
FindKey(list, key) ==
    LET hits == {i \in 1..Len(list) : list[i][1] = key}
    IN  IF hits = {} THEN 0 ELSE CHOOSE i \in hits : \A j \in hits : i <= j

HashMap_insert(m, key, value) ==
    LET pos == BucketOf(m, key)
        list == m.data[pos]
        i == FindKey(list, key)
    IN  IF i # 0
        THEN [m EXCEPT !.data[pos][i] = <<key, value>>]
        ELSE [m EXCEPT !.data[pos] = Append(list, <<key, value>>),
                       !.size = m.size + 1]

HashMap_get(m, key) ==
    LET list == m.data[BucketOf(m, key)]
        i == FindKey(list, key)
    IN  IF i = 0 THEN None ELSE Some(list[i][2])

\* Vec::swap_remove(i): the last element takes the place of the removed one.
SwapRemove(list, i) ==
    LET n == Len(list)
    IN  [j \in 1..(n - 1) |-> IF j = i THEN list[n] ELSE list[j]]

\* HashMap::remove: the size field is left as it is.
HashMap_remove(m, key) ==
    LET pos == BucketOf(m, key)
        list == m.data[pos]
        i == FindKey(list, key)
    IN  IF i = 0
        THEN [map |-> m, ret |-> None]
        ELSE [map |-> [m EXCEPT !.data[pos] = SwapRemove(list, i)],
              ret |-> Some(list[i][2])]

\* The entries stored in a table, and the keys among them.
EntriesOf(m) ==
    UNION {{m.data[b][i] : i \in 1..Len(m.data[b])} : b \in 1..Len(m.data)}
KeysOf(m) == {e[1] : e \in EntriesOf(m)}

\* A SuperHashMap value: [map1, map2 (an Option), resizing_pos].
SuperHashMap_new(capacity) ==
    [map1 |-> HashMap_new(capacity), map2 |-> None, resizing_pos |-> 0]

SuperHashMap_get(s, key) ==
    LET r == HashMap_get(s.map1, key)
    IN  IF r # None THEN r
        ELSE IF s.map2 # None THEN HashMap_get(s.map2[1], key)
        ELSE None

\* A mutant: the previous primary table is dropped instead of kept as map2.
start_resizing_Drop(s) ==
    [s EXCEPT !.map1 = HashMap_new((s.map1.mask + 1) * 2), !.map2 = None]

\* resizing_pos is not touched here.
start_resizing(s) ==
    [s EXCEPT !.map1 = HashMap_new((s.map1.mask + 1) * 2),
              !.map2 = Some(s.map1)]

\* The entries help_resizing pops, in the order it pops them: the buckets of
\* map2 from resizing_pos on, each from its end.
Reverse(list) == [i \in 1..Len(list) |-> list[Len(list) + 1 - i]]

RECURSIVE PopOrder(_, _)
PopOrder(data, b) ==
    IF b > Len(data) THEN <<>> ELSE Reverse(data[b]) \o PopOrder(data, b + 1)

\* The number of entries in the buckets pos+1 .. b-1 of data.
RECURSIVE Before(_, _, _)
Before(data, pos, b) ==
    IF b <= pos + 1 THEN 0
    ELSE Before(data, pos, b - 1) + Len(data[b - 1])

\* HashMap::insert applied to each entry of moved in turn, moved holding no key
\* twice (the entries of one table): an entry whose key is in m replaces that
\* key's value, the others are pushed to their bucket in order.
InsertAll(m, moved) ==
    LET New(e) == HashMap_get(m, e[1]) = None
        ValueFor(old) ==
            LET hits == {g \in 1..Len(moved) : moved[g][1] = old[1]}
            IN  IF hits = {} THEN old
                ELSE <<old[1], moved[CHOOSE g \in hits : TRUE][2]>>
    IN  [data |-> [c \in 1..Len(m.data) |->
                     [i \in 1..Len(m.data[c]) |-> ValueFor(m.data[c][i])]
                     \o SelectSeq(moved,
                                  LAMBDA e : New(e) /\ BucketOf(m, e[1]) = c)],
         mask |-> m.mask,
         size |-> m.size + Len(SelectSeq(moved, New))]

\* The loops of help_resizing (hash_map.rs:310-322) in closed form. work is
\* incremented after each move and the loops are left when work >
\* MAX_RESIZING_WORK, so MAX_RESIZING_WORK + 1 entries are moved when that many
\* are left; resizing_pos then stays on the bucket of the last entry moved,
\* even when that bucket is now empty. When fewer are left every bucket is
\* passed. Popping does not change map2.size.
HelpLoop(m1, m2, pos) ==
    LET order == PopOrder(m2.data, pos + 1)
        work == IF Len(order) > MAX_RESIZING_WORK
                THEN MAX_RESIZING_WORK + 1 ELSE Len(order)
        moved == SubSeq(order, 1, work)
        Taken(b) ==
            LET before == Before(m2.data, pos, b)
                left == IF work > before THEN work - before ELSE 0
            IN  IF left > Len(m2.data[b]) THEN Len(m2.data[b]) ELSE left
        stop == CHOOSE b \in (pos + 1)..Len(m2.data) :
                    /\ Before(m2.data, pos, b + 1) >= work
                    /\ \A c \in (pos + 1)..(b - 1) :
                          Before(m2.data, pos, c + 1) < work
    IN  [map1 |-> InsertAll(m1, moved),
         map2 |-> [m2 EXCEPT !.data =
                     [b \in 1..Len(m2.data) |->
                        IF b <= pos THEN m2.data[b]
                        ELSE SubSeq(m2.data[b], 1,
                                    Len(m2.data[b]) - Taken(b))]],
         pos |-> IF Len(order) > MAX_RESIZING_WORK
                 THEN stop - 1 ELSE Len(m2.data),
         work |-> work]

\* A mutant: map2 is released after one round of the loops, whatever it
\* still holds.
help_resizing_Early(s) ==
    IF s.map2 = None THEN s
    ELSE [map1 |-> HelpLoop(s.map1, s.map2[1], s.resizing_pos).map1,
          map2 |-> None, resizing_pos |-> 0]

help_resizing(s) ==
    IF s.map2 = None THEN s
    ELSE LET r == HelpLoop(s.map1, s.map2[1], s.resizing_pos)
         IN  IF r.pos >= Len(r.map2.data)
             THEN [map1 |-> r.map1, map2 |-> None, resizing_pos |-> 0]
             ELSE [map1 |-> r.map1, map2 |-> Some(r.map2),
                   resizing_pos |-> r.pos]

SuperHashMap_insert(s, key, value) ==
    LET s1 == [s EXCEPT !.map1 = HashMap_insert(s.map1, key, value)]
        load_factor == s1.map1.size \div (s1.map1.mask + 1)
        s2 == IF load_factor > MAX_LOAD_FACTOR THEN start_resizing(s1) ELSE s1
    IN  help_resizing(s2)

\* [map |-> the table afterwards, ret |-> the Option returned].
SuperHashMap_remove(s, key) ==
    LET r1 == HashMap_remove(s.map1, key)
    IN  IF r1.ret # None
        THEN [map |-> [s EXCEPT !.map1 = r1.map], ret |-> r1.ret]
        ELSE IF s.map2 = None
        THEN [map |-> s, ret |-> None]
        ELSE LET r2 == HashMap_remove(s.map2[1], key)
             IN  [map |-> [s EXCEPT !.map2 = Some(r2.map)], ret |-> r2.ret]

(***************************************************************************)
(* The workload on the table.  Keys 0, 1, 2, ... are inserted in order,    *)
(* key k with the value ValueOf(k); the keys of TouchKeys are also         *)
(* inserted again with any value, and removed. ntouch counts the mutating  *)
(* operations from the first re-insert or remove on.                       *)
(***************************************************************************)
Table == [map1 |-> map1, map2 |-> map2, resizing_pos |-> resizing_pos]

ValueOf(k) == (k % 2) + 1

SetTable(s) ==
    /\ map1' = s.map1
    /\ map2' = s.map2
    /\ resizing_pos' = s.resizing_pos

NoOp == [op |-> "new", key |-> 0, val |-> 0, ret |-> None, pre |-> None,
         again |-> FALSE]

MapInit ==
    /\ \E capacity \in InitCapacities :
          /\ map1 = HashMap_new(capacity)
          /\ map2 = None
          /\ resizing_pos = 0
    /\ nkeys = 0
    /\ ntouch = 0
    /\ lastOp = NoOp
    /\ gone = {}
    /\ NoServer
    /\ NoParse
    /\ NoWriter
    /\ NoBuffer

\* map.insert(key, value)
DoInsert(key, value) ==
    /\ SetTable(SuperHashMap_insert(Table, key, value))
    /\ lastOp' = [op |-> "insert", key |-> key, val |-> value, ret |-> None,
                  pre |-> SuperHashMap_get(Table, key), again |-> FALSE]
    /\ gone' = gone \ {key}

InsertNext ==
    /\ nkeys < MaxKeys
    /\ ntouch < MaxTouch
    /\ DoInsert(nkeys, ValueOf(nkeys))
    /\ nkeys' = nkeys + 1
    /\ ntouch' = IF ntouch = 0 THEN 0 ELSE ntouch + 1
    /\ UNCHANGED <<srvVars, protoVars, bufVars>>

InsertAgain ==
    \E key \in TouchKeys, value \in Values :
       /\ key < nkeys
       /\ ntouch < MaxTouch
       /\ DoInsert(key, value)
       /\ ntouch' = ntouch + 1
       /\ UNCHANGED nkeys
       /\ UNCHANGED <<srvVars, protoVars, bufVars>>

\* map.remove(key)
Remove ==
    \E key \in TouchKeys :
       /\ ntouch < MaxTouch
       /\ LET r == SuperHashMap_remove(Table, key)
          IN  /\ SetTable(r.map)
              /\ lastOp' = [op |-> "remove", key |-> key, val |-> 0,
                            ret |-> r.ret,
                            pre |-> SuperHashMap_get(Table, key),
                            again |-> key \in gone]
       /\ gone' = gone \cup {key}
       /\ ntouch' = ntouch + 1
       /\ UNCHANGED nkeys
       /\ UNCHANGED <<srvVars, protoVars, bufVars>>

\* map.get(key)
Get ==
    \E key \in TouchKeys :
       /\ lastOp' = [op |-> "get", key |-> key, val |-> 0,
                     ret |-> SuperHashMap_get(Table, key),
                     pre |-> SuperHashMap_get(Table, key), again |-> FALSE]
       /\ UNCHANGED <<map1, map2, resizing_pos, nkeys, ntouch, gone>>
       /\ UNCHANGED <<srvVars, protoVars, bufVars>>

MapNext == InsertNext \/ InsertAgain \/ Remove \/ Get

SpecMap == MapInit /\ [][MapNext]_vars

\* The steps of InsertNext, told by the counter of the keys: no other action
\* changes nkeys.
InsertsLeft == nkeys < MaxKeys /\ ntouch < MaxTouch
NextKey == InsertsLeft /\ nkeys' = nkeys + 1

\* The caller goes on inserting as long as its workload has a key left.
SpecMapFair == SpecMap /\ WF_nkeys(NextKey)

(***************************************************************************)
(* Claims about the hash table.                                            *)
(***************************************************************************)
GetNow(key) == SuperHashMap_get(Table, key)
Resizing == map2 # None

\* C6: immediately after insert(k, v) returns, get(k) returns v, in every
\* reachable state of the table, a rehash in progress included.
C6_InsertThenGet ==
    lastOp.op = "insert" => GetNow(lastOp.key) = Some(lastOp.val)

\* C7: immediately after remove(k) returns, get(k) returns None.
C7_RemoveThenGet ==
    lastOp.op = "remove" => GetNow(lastOp.key) = None

\* C8: no key is stored in both map1 and map2.
C8_NoKeyInBoth ==
    Resizing => KeysOf(map1) \cap KeysOf(map2[1]) = {}

\* C9: as long as only pairwise distinct keys have been inserted, get(k)
\* returns the value inserted for every key k inserted so far, before, during
\* and after every resize and migration step.
C9_InsertOnlyGet ==
    ntouch = 0 => \A k \in 0..(nkeys - 1) : GetNow(k) = Some(ValueOf(k))

\* C9's case: an insert-only run in the middle of a migration that takes
\* more than one step.
C9_Witness ==
    /\ ntouch = 0
    /\ lastOp.op = "insert"
    /\ Resizing
    /\ resizing_pos > 0
    /\ KeysOf(map1) # {}
    /\ KeysOf(map2[1]) # {}

\* C10: remove(k) returns what get(k) returned just before the call (None
\* when k is absent), and a second remove(k) with no insert of k in between
\* returns None.
C10_RemoveReturns ==
    lastOp.op = "remove" =>
        /\ lastOp.ret = lastOp.pre
        /\ lastOp.again => lastOp.ret = None

(***************************************************************************)
(* Part 2.  The server: src/server/main.rs, src/shared/lib.rs              *)
(*                                                                         *)
(* Bytes are numbers 0..255 and byte strings are sequences of them. Of a   *)
(* ConnectionBuffer's data only the bytes below write_head are kept: the   *)
(* code reads no byte at or above write_head before overwriting it.        *)
(***************************************************************************)

\* Program constants (lib.rs:200-205).
HEADER_LEN == 4
MAX_MSG_LEN == 4096
BUF_LEN == HEADER_LEN + MAX_MSG_LEN
RESPONSE_CODE_LEN == 4
ARGS_LEN == 4
STRING_LEN == 4

\* enum ResponseCode (lib.rs:273-278).
RC_Ok == 0
RC_Err == 1
RC_Nx == 2

\* u32::to_be_bytes and u32::from_be_bytes.
U32BE(n) == <<(n \div 16777216) % 256, (n \div 65536) % 256,
              (n \div 256) % 256, n % 256>>
FromBE(b) == b[1] * 16777216 + b[2] * 65536 + b[3] * 256 + b[4]

\* ASCII.
S_get == <<103, 101, 116>>
S_set == <<115, 101, 116>>
S_del == <<100, 101, 108>>
S_unknown_command ==
    <<85, 110, 107, 110, 111, 119, 110, 32, 99, 111, 109, 109, 97, 110, 100>>
S_no_key_provided ==
    <<110, 111, 32, 107, 101, 121, 32, 112, 114, 111, 118, 105, 100, 101, 100>>
S_invalid_key == <<105, 110, 118, 97, 108, 105, 100, 32, 107, 101, 121>>
Key_a == <<97>>
Key_b == <<98>>
Val_1 == <<49>>

\* std::str::from_utf8 on the bytes the model uses: ASCII is valid UTF-8, a
\* byte string holding a byte above 127 is taken as invalid.
ValidUtf8(bytes) == \A i \in 1..Len(bytes) : bytes[i] < 128

\* Vec::with_capacity(n_args) asks for 16 * n_args bytes; from this count on
\* (256 MiB) the allocation may fail, which aborts the process.
LargeAlloc == 16777216

Min(a, b) == IF a < b THEN a ELSE b

(***************************************************************************)
(* The peer's encoding of a request (client/main.rs:17-22, 33-69, for one  *)
(* command per frame): u32 length, u32 argument count, then each argument  *)
(* as a u32 length and its bytes; the command name is the first argument.  *)
(***************************************************************************)
encode_string(arg) == U32BE(Len(arg)) \o arg

RECURSIVE EncodeArgs(_)
EncodeArgs(args) ==
    IF args = <<>> THEN <<>>
    ELSE encode_string(Head(args)) \o EncodeArgs(Tail(args))

RequestBody(cmd) == U32BE(Len(cmd)) \o EncodeArgs(cmd)
RequestFrame(cmd) == U32BE(Len(RequestBody(cmd))) \o RequestBody(cmd)

RECURSIVE Wire(_)
Wire(cmds) ==
    IF cmds = <<>> THEN <<>> ELSE RequestFrame(Head(cmds)) \o Wire(Tail(cmds))

(***************************************************************************)
(* Command::parse (lib.rs:222-271). kind is "ok" (a command), "err" (a     *)
(* ParseCommandError, named in the field error) or "panic" (a slice index  *)
(* out of range, args[0] of an empty vector, or a failed allocation).      *)
(***************************************************************************)
RECURSIVE ParseArgs(_, _, _)
ParseArgs(body, n_args, args) ==
    IF n_args = 0 THEN [kind |-> "ok", args |-> args]
    ELSE IF Len(body) <= 0 THEN [kind |-> "err", args |-> args]
    ELSE IF Len(body) < STRING_LEN THEN [kind |-> "panic", args |-> args]
    ELSE LET string_length == FromBE(SubSeq(body, 1, STRING_LEN))
         IN  IF Len(body) < STRING_LEN + string_length
             THEN [kind |-> "panic", args |-> args]
             ELSE ParseArgs(
                      SubSeq(body, STRING_LEN + string_length + 1, Len(body)),
                      n_args - 1,
                      Append(args, SubSeq(body, STRING_LEN + 1,
                                          STRING_LEN + string_length)))

\* The end of Command::parse: the first argument names the command.
Command_of(r) ==
    IF r.kind = "err" THEN [kind |-> "err", error |-> "InputTooShort"]
    ELSE IF r.kind # "ok" THEN [kind |-> r.kind]
    ELSE IF r.args = <<>> THEN [kind |-> "panic"]
    ELSE IF Head(r.args) \in {S_get, S_set, S_del}
    THEN [kind |-> "ok", cmd |-> Head(r.args), args |-> Tail(r.args)]
    ELSE [kind |-> "err", error |-> "UnknownCommand"]

Command_parse(body, allocOk) ==
    IF Len(body) < ARGS_LEN THEN [kind |-> "err", error |-> "InputTooShort"]
    ELSE IF FromBE(SubSeq(body, 1, ARGS_LEN)) >= LargeAlloc /\ ~allocOk
    THEN [kind |-> "panic"]
    ELSE Command_of(ParseArgs(SubSeq(body, ARGS_LEN + 1, Len(body)),
                              FromBE(SubSeq(body, 1, ARGS_LEN)), <<>>))

(***************************************************************************)
(* The executors (main.rs:372-437). Each returns the response code, the    *)
(* response bytes and the Context afterwards; kind "panic" is an           *)
(* assertion or a slice index that fails.                                  *)
(***************************************************************************)
Reply(code, response, ctx) ==
    [kind |-> "ok", code |-> code, response |-> response, ctx |-> ctx]

\* A mutant: a missing key is reported as an error.
do_get_NxAsErr(ctx, args) ==
    IF Len(args) <= 0 THEN Reply(RC_Err, S_no_key_provided, ctx)
    ELSE IF ~ValidUtf8(args[1]) THEN Reply(RC_Err, S_invalid_key, ctx)
    ELSE IF args[1] \notin DOMAIN ctx.data
    THEN Reply(RC_Err, S_invalid_key, ctx)
    ELSE [kind |-> "panic"]

\* For a key that is present the response is the whole scratch buffer of
\* MAX_MSG_LEN - RESPONSE_CODE_LEN bytes (main.rs:412), which fits in no
\* write buffer: ResponseWriter::push_string fails on its slice.
do_get(ctx, args) ==
    IF Len(args) <= 0 THEN Reply(RC_Err, S_no_key_provided, ctx)
    ELSE IF ~ValidUtf8(args[1]) THEN Reply(RC_Err, S_invalid_key, ctx)
    ELSE IF args[1] \notin DOMAIN ctx.data THEN Reply(RC_Nx, <<>>, ctx)
    ELSE [kind |-> "panic"]

\* do_set and do_del only print their arguments.
do_set(ctx, args) == Reply(RC_Ok, <<>>, ctx)

do_del(ctx, args) == Reply(RC_Ok, <<>>, ctx)

\* do_request: a body that does not parse is answered "Unknown command".
\* A mutant: a request that does not parse is answered like a missing key.
Execute_UnknownAsNx(ctx, request) ==
    IF request.kind = "panic" THEN [kind |-> "panic"]
    ELSE IF request.kind = "err" THEN Reply(RC_Nx, <<>>, ctx)
    ELSE IF request.cmd = S_get THEN do_get(ctx, request.args)
    ELSE IF request.cmd = S_set THEN do_set(ctx, request.args)
    ELSE do_del(ctx, request.args)

Execute(ctx, request) ==
    IF request.kind = "panic" THEN [kind |-> "panic"]
    ELSE IF request.kind = "err" THEN Reply(RC_Err, S_unknown_command, ctx)
    ELSE IF request.cmd = S_get THEN do_get(ctx, request.args)
    ELSE IF request.cmd = S_set THEN do_set(ctx, request.args)
    ELSE do_del(ctx, request.args)

do_request(ctx, body, allocOk) == Execute(ctx, Command_parse(body, allocOk))

\* What ResponseWriter leaves in the buffer: the length, the response code
\* and, when the response is not empty, the response as a string.
ResponseFrame(code, response) ==
    LET payload == IF Len(response) > 0 THEN encode_string(response) ELSE <<>>
    IN  U32BE(RESPONSE_CODE_LEN + Len(payload)) \o U32BE(code) \o payload

(***************************************************************************)
(* ConnectionBuffer (main.rs:63-121).                                      *)
(***************************************************************************)
ConnectionBuffer_new == [data |-> <<>>, read_head |-> 0, write_head |-> 0]

readable(buf) == SubSeq(buf.data, buf.read_head + 1, buf.write_head)

\* The length of writable().
writable(buf) == BUF_LEN - buf.write_head

\* Storing bytes in writable() and then update_write_head(Len(bytes)).
update_write_head(buf, bytes) ==
    [buf EXCEPT !.data = SubSeq(buf.data, 1, buf.write_head) \o bytes,
                !.write_head = @ + Len(bytes)]

\* A mutant: write_head becomes the number of pending bytes and read_head
\* stays where it is.
remove_processed_Heads(buf) ==
    LET remaining == buf.write_head - buf.read_head
        next == buf.read_head
    IN  IF remaining <= 0 THEN buf
        ELSE [buf EXCEPT
                !.data = [i \in 1..remaining |-> buf.data[next + i]],
                !.write_head = remaining]

\* The pending bytes move to the start of the buffer and read_head becomes
\* 0; write_head stays where it is. Nothing happens when nothing is pending.
remove_processed(buf) ==
    LET remaining == buf.write_head - buf.read_head
        next == buf.read_head
    IN  IF remaining <= 0 THEN buf
        ELSE [buf EXCEPT
                !.data = [i \in 1..Len(buf.data) |->
                            IF i <= remaining THEN buf.data[next + i]
                            ELSE buf.data[i]],
                !.read_head = 0]

Connection_new ==
    [state |-> "ReadRequest", read_buf |-> ConnectionBuffer_new,
     write_buf |-> ConnectionBuffer_new]

(***************************************************************************)
(* try_one_request (main.rs:236-314). kind is "more" (Ok(true)), "wait"    *)
(* (Ok(false)), "too_long" (Err(MessageTooLong)), "panic" (the request    *)
(* panics) or "overflow". The response is written into                     *)
(* write_buf.writable(): ResponseWriter's slices and the assertion of      *)
(* update_write_head fail, which is a panic too, unless the frame ends     *)
(* before the last byte of the buffer ("overflow").                        *)
(***************************************************************************)
\* A mutant: a call that returns early drops the bytes pending in the read
\* buffer.
Stop_Drop(kind, ctx, conn) ==
    [kind |-> kind,
     conn |-> [conn EXCEPT !.read_buf.read_head = conn.read_buf.write_head],
     ctx |-> ctx, entries |-> <<>>]

Stop(kind, ctx, conn) ==
    [kind |-> kind, conn |-> conn, ctx |-> ctx, entries |-> <<>>]

\* The second half of try_one_request: the response r to request_body is
\* written and the request is consumed.
Respond(ctx, conn, fd, request_body, r) ==
    IF r.kind = "panic" THEN Stop("panic", ctx, conn)
    ELSE IF conn.write_buf.write_head
              + Len(ResponseFrame(r.code, r.response)) >= BUF_LEN
    THEN Stop("overflow", ctx, conn)
    ELSE [kind |-> "more",
          conn |-> [conn EXCEPT
                      !.write_buf = update_write_head(@,
                                        ResponseFrame(r.code, r.response)),
                      !.read_buf.read_head =
                          @ + HEADER_LEN + Len(request_body)],
          ctx |-> r.ctx,
          entries |-> <<[fd |-> fd, body |-> request_body, code |-> r.code,
                         response |-> r.response, before |-> ctx,
                         after |-> r.ctx]>>]

\* A mutant: a length prefix above MAX_MSG_LEN is waited for like any other.
try_one_request_NoLimit(ctx, conn, fd, allocOk) ==
    LET buf == readable(conn.read_buf)
    IN  IF Len(buf) < HEADER_LEN THEN Stop("wait", ctx, conn)
        ELSE IF Len(buf) < HEADER_LEN + FromBE(SubSeq(buf, 1, HEADER_LEN))
        THEN Stop("wait", ctx, conn)
        ELSE Respond(ctx, conn, fd,
                 SubSeq(buf, HEADER_LEN + 1,
                        HEADER_LEN + FromBE(SubSeq(buf, 1, HEADER_LEN))),
                 do_request(ctx,
                     SubSeq(buf, HEADER_LEN + 1,
                            HEADER_LEN + FromBE(SubSeq(buf, 1, HEADER_LEN))),
                     allocOk))

try_one_request(ctx, conn, fd, allocOk) ==
    LET buf == readable(conn.read_buf)
    IN  IF Len(buf) < HEADER_LEN THEN Stop("wait", ctx, conn)
        ELSE IF FromBE(SubSeq(buf, 1, HEADER_LEN)) > MAX_MSG_LEN
        THEN Stop("too_long", ctx, conn)
        ELSE IF Len(buf) < HEADER_LEN + FromBE(SubSeq(buf, 1, HEADER_LEN))
        THEN Stop("wait", ctx, conn)
        ELSE Respond(ctx, conn, fd,
                 SubSeq(buf, HEADER_LEN + 1,
                        HEADER_LEN + FromBE(SubSeq(buf, 1, HEADER_LEN))),
                 do_request(ctx,
                     SubSeq(buf, HEADER_LEN + 1,
                            HEADER_LEN + FromBE(SubSeq(buf, 1, HEADER_LEN))),
                     allocOk))

\* One round of the loop of try_fill_buffer (main.rs:190-194): st is the
\* state before the call of try_one_request and r what the call returned.
Round(st, r) ==
    IF r.kind = "more"
    THEN [kind |-> "more", conn |-> r.conn, ctx |-> r.ctx,
          entries |-> st.entries \o r.entries]
    ELSE [kind |-> r.kind, conn |-> st.conn, ctx |-> st.ctx,
          entries |-> st.entries]

\* Up to n rounds of the loop, which ends with the first call that does not
\* return true. (The rounds are split in halves to keep the evaluation
\* shallow.)
RECURSIVE Rounds(_, _, _, _)
Rounds(st, fd, allocOk, n) ==
    IF st.kind # "more" THEN st
    ELSE IF n = 1
    THEN Round(st, try_one_request(st.ctx, st.conn, fd, allocOk))
    ELSE Rounds(Rounds(st, fd, allocOk, n \div 2), fd, allocOk,
                n - (n \div 2))

\* Every request takes at least its header from the read buffer, so the
\* loop has ended after this many rounds.
MaxRounds == BUF_LEN \div HEADER_LEN + 1

\* The loop of try_fill_buffer (main.rs:190-194).
ProcessRequests(ctx, conn, fd, allocOk, entries) ==
    Rounds([kind |-> "more", conn |-> conn, ctx |-> ctx,
            entries |-> entries], fd, allocOk, MaxRounds)

(***************************************************************************)
(* do_send_responses (main.rs:511-574): the write calls of one run of its  *)
(* loop take t bytes in all. When the buffer is drained the connection     *)
(* goes back to ReadRequest with both heads at 0.                          *)
(***************************************************************************)
\* A mutant: the read head stays where it is after a partial write.
do_send_responses_NoAdvance(conn, t) ==
    IF conn.write_buf.read_head + t = conn.write_buf.write_head
    THEN [conn EXCEPT !.state = "ReadRequest",
                      !.write_buf = ConnectionBuffer_new]
    ELSE [conn EXCEPT !.state = "SendResponse"]

do_send_responses(conn, t) ==
    IF conn.write_buf.read_head + t = conn.write_buf.write_head
    THEN [conn EXCEPT !.state = "ReadRequest",
                      !.write_buf = ConnectionBuffer_new]
    ELSE [conn EXCEPT !.state = "SendResponse",
                      !.write_buf.read_head = @ + t]

(***************************************************************************)
(* The peers and the sockets.                                              *)
(***************************************************************************)
Clients == {1, 2}

Cmd_get(key) == <<S_get, key>>
Cmd_set(key, value) == <<S_set, key, value>>
Cmd_del(key) == <<S_del, key>>
\* "foo a": a request whose command name the server does not know.
S_foo == <<102, 111, 111>>
Cmd_foo(key) == <<S_foo, key>>

\* What the peers send, and in segments of which size the bytes travel:
\* one peer whose requests are split at every third byte, one peer to which
\* the responses are written byte by byte, or two peers whose requests and
\* responses travel whole.
Whole == BUF_LEN

NoRaw == <<<<>>, <<>> >>

\* Malformed bodies: no argument at all; two arguments announced and one
\* present; an argument of 9 bytes announced and 3 present.
MalformedBodies ==
    {U32BE(0),
     U32BE(2) \o encode_string(S_get),
     U32BE(1) \o U32BE(9) \o S_get}

\* n frames with the length prefix 0, and the number of them whose
\* responses do not fit in a buffer together.
EmptyFrames(n) == [i \in 1..(n * HEADER_LEN) |-> 0]
Flood == BUF_LEN \div Len(ResponseFrame(RC_Err, S_unknown_command)) + 1

\* A key of 1000 bytes: a GET of it is a request of 1019 bytes.
Key_long == [i \in 1..1000 |-> 97]

\* The key with which the body of a GET has exactly MAX_MSG_LEN bytes.
Key_max ==
    [i \in 1..(MAX_MSG_LEN - ARGS_LEN - 2 * STRING_LEN - Len(S_get)) |-> 97]

Configs ==
    {[script |-> <<s, <<>> >>, raw |-> NoRaw,
      seg |-> [read |-> 3, write |-> Whole]] :
        s \in {<<Cmd_set(Key_a, Val_1), Cmd_get(Key_a)>>,
               <<Cmd_del(Key_a), Cmd_get(Key_a)>>}}
    \cup
    {[script |-> <<<<Cmd_del(Key_a), Cmd_get(Key_a)>>, <<>> >>,
      raw |-> NoRaw,
      seg |-> [read |-> 20, write |-> 1]],
     [script |-> <<<<Cmd_set(Key_a, Val_1), Cmd_del(Key_b), Cmd_get(Key_b)>>,
                   <<Cmd_get(Key_a)>> >>,
      raw |-> NoRaw,
      seg |-> [read |-> Whole, write |-> Whole]]}
    \cup
    \* five large requests, more bytes in all than a buffer holds, that
    \* arrive one request at a time or several at once
    {[script |-> <<[i \in 1..5 |-> Cmd_get(Key_long)], <<>> >>,
      raw |-> NoRaw,
      seg |-> [read |-> Len(RequestFrame(Cmd_get(Key_long))),
               write |-> Whole]]}
    \cup
    \* a request, then a frame whose length prefix is MAX_MSG_LEN + 1
    {[script |-> <<<<Cmd_get(Key_a)>>, <<>> >>,
      raw |-> <<U32BE(MAX_MSG_LEN + 1) \o U32BE(2), <<>> >>,
      seg |-> [read |-> 2, write |-> Whole]]}
    \cup
    \* a request for an unknown command between two requests, next to a
    \* peer that sends a request
    {[script |-> <<<<Cmd_set(Key_a, Val_1), Cmd_foo(Key_a), Cmd_get(Key_b)>>,
                   <<Cmd_get(Key_a)>> >>,
      raw |-> NoRaw,
      seg |-> [read |-> Len(RequestFrame(Cmd_set(Key_a, Val_1))),
               write |-> Whole]]}
    \cup
    \* a peer that sends one frame with a malformed body, next to a peer
    \* that sends a request
    {[script |-> <<<<>>, <<Cmd_get(Key_a)>> >>,
      raw |-> <<U32BE(Len(body)) \o body, <<>> >>,
      seg |-> [read |-> Whole, write |-> Whole]] : body \in MalformedBodies}
    \cup
    \* as many empty frames as it takes for the responses to them to be
    \* longer than a buffer, all in one read
    {[script |-> <<<<>>, <<>> >>,
      raw |-> <<EmptyFrames(Flood), <<>> >>,
      seg |-> [read |-> Whole, write |-> Whole]]}
    \cup
    \* one request whose length prefix is MAX_MSG_LEN
    {[script |-> <<<<Cmd_get(Key_max)>>, <<>> >>,
      raw |-> NoRaw,
      seg |-> [read |-> Whole, write |-> Whole]]}

\* read(fd, buf, len(buf) - 1) returns the bytes that have arrived: n of
\* them, in whole segments or everything there is room for.
ReadSizes(c) ==
    LET count == writable(remove_processed(connections[c].read_buf)) - 1
        max == Min(Len(pending[c]), count)
    IN  {n \in 1..max : n % seg.read = 0 \/ n = max}

\* write(fd, readable()) takes t bytes, in whole segments or everything.
FlushSizes(conn) ==
    LET len == conn.write_buf.write_head - conn.write_buf.read_head
    IN  {t \in 0..len : t % seg.write = 0 \/ t = len}

Written(conn, t) == SubSeq(readable(conn.write_buf), 1, t)

\* A write to a socket whose peer is gone may fail; an empty write does not.
WriteOutcomes(c, conn) ==
    IF peer[c] = "hungup" /\ readable(conn.write_buf) # <<>>
    THEN {"ok", "error"} ELSE {"ok"}

SrvInit ==
    /\ \E cfg \in Configs :
          /\ script = cfg.script
          /\ seg = cfg.seg
          /\ raw = cfg.raw
          /\ pending = [c \in Clients |-> Wire(cfg.script[c]) \o cfg.raw[c]]
          /\ peer = [c \in Clients |->
                       IF cfg.script[c] = <<>> /\ cfg.raw[c] = <<>>
                       THEN "absent" ELSE "connecting"]
    /\ NoParse
    /\ NoWriter
    /\ NoBuffer
    /\ connections = <<>>
    /\ context = [data |-> <<>>]
    /\ cur = 0
    /\ server = "running"
    /\ sent = [c \in Clients |-> <<>>]
    /\ log = <<>>
    /\ cause = [c \in Clients |-> "none"]
    /\ map1 = HashMap_new(1)
    /\ map2 = None
    /\ resizing_pos = 0
    /\ nkeys = 0
    /\ ntouch = 0
    /\ lastOp = NoOp
    /\ gone = {}

\* accept_new_connection (main.rs:576-602).
Accept(c) ==
    /\ server = "running"
    /\ cur = 0
    /\ peer[c] = "connecting"
    /\ connections' = [d \in DOMAIN connections \cup {c} |->
                         IF d = c THEN Connection_new ELSE connections[d]]
    /\ peer' = [peer EXCEPT ![c] = "open"]
    /\ UNCHANGED <<context, cur, server, pending, sent, script, seg, log,
                   raw, cause>>
    /\ UNCHANGED <<mapVars, protoVars, bufVars>>

\* poll flags the listening fd, but the connection that waited there was
\* withdrawn and accept fails with EAGAIN: accept_new_connection returns the
\* error (main.rs:582) and main returns it (main.rs:684).
AcceptAgain(c) ==
    /\ server = "running"
    /\ cur = 0
    /\ peer[c] = "connecting"
    /\ peer' = [peer EXCEPT ![c] = "withdrawn"]
    /\ cause' = [cause EXCEPT ![c] = "accept_again"]
    /\ server' = "exited"
    /\ UNCHANGED <<connections, context, cur, pending, sent, script, seg, log,
                   raw>>
    /\ UNCHANGED <<mapVars, protoVars, bufVars>>

\* The peer closes its socket once it has sent its requests.
PeerClose(c) ==
    /\ peer[c] = "open"
    /\ peer' = [peer EXCEPT ![c] = "hungup"]
    /\ UNCHANGED <<connections, context, cur, server, pending, sent, script,
                   seg, log, raw, cause>>
    /\ UNCHANGED <<mapVars, protoVars, bufVars>>

\* A mutant: the connection stays in the map.
Delete_Keep(c) ==
    /\ connections' = connections
    /\ peer' = [peer EXCEPT ![c] = "gone"]
    /\ cur' = 0

\* ConnectionAction::Delete (main.rs:695-700).
Delete(c) ==
    /\ connections' = [d \in DOMAIN connections \ {c} |-> connections[d]]
    /\ peer' = [peer EXCEPT ![c] = "gone"]
    /\ cur' = 0

(***************************************************************************)
(* try_fill_buffer (main.rs:159-206), one call of it: the bytes read, the  *)
(* requests found in the buffer, the attempt to send the responses.        *)
(***************************************************************************)
\* After the read of n bytes and the loop over the requests, whose outcome
\* is r.
Filled(c, n, r) ==
    /\ pending' = [pending EXCEPT ![c] = SubSeq(@, n + 1, Len(@))]
    /\ log' = log \o r.entries
    /\ context' = r.ctx
    /\ IF r.kind \in {"panic", "overflow"}
       THEN /\ server' = "panicked"
            /\ cause' = [cause EXCEPT ![c] = r.kind]
            /\ UNCHANGED <<connections, peer, cur, sent>>
       ELSE IF r.kind = "too_long"
       THEN /\ Delete(c)
            /\ cause' = [cause EXCEPT ![c] = "too_long"]
            /\ UNCHANGED <<server, sent>>
       ELSE \E t \in FlushSizes(r.conn), w \in WriteOutcomes(c, r.conn) :
               IF w = "error"
               THEN /\ server' = "panicked"
                    /\ cause' = [cause EXCEPT ![c] = "write_error"]
                    /\ UNCHANGED <<connections, peer, cur, sent>>
               ELSE /\ connections' = [connections EXCEPT
                           ![c] = do_send_responses(r.conn, t)]
                    /\ sent' = [sent EXCEPT ![c] = @ \o Written(r.conn, t)]
                    /\ cur' = IF connections'[c].state = "ReadRequest"
                              THEN c ELSE 0
                    /\ UNCHANGED <<server, peer, cause>>

TryFillData(c) ==
    \E n \in ReadSizes(c), allocOk \in BOOLEAN :
       Filled(c, n,
           ProcessRequests(context,
               [connections[c] EXCEPT
                  !.read_buf = update_write_head(remove_processed(@),
                                   SubSeq(pending[c], 1, n))],
               c, allocOk, <<>>))

\* read returns no byte: the peer is gone and all it sent was read ("eof"),
\* or the buffer has no room and read was asked for 0 bytes ("no_room").
\* try_fill_buffer takes both for the end of the stream.
TryFillEof(c) ==
    /\ \/ writable(remove_processed(connections[c].read_buf)) - 1 = 0
       \/ pending[c] = <<>> /\ peer[c] = "hungup"
    /\ Delete(c)
    /\ cause' = [cause EXCEPT ![c] =
                    IF writable(remove_processed(connections[c].read_buf)) - 1
                         = 0
                    THEN "no_room" ELSE "eof"]
    /\ UNCHANGED <<context, server, pending, sent, log>>

\* read fails with EAGAIN.
TryFillAgain(c) ==
    /\ peer[c] # "hungup"
    /\ writable(remove_processed(connections[c].read_buf)) - 1 > 0
    /\ connections' = [connections EXCEPT
                         ![c].read_buf = remove_processed(@)]
    /\ cur' = 0
    /\ UNCHANGED <<context, server, pending, peer, sent, log, cause>>

\* A mutant: the poll loop asks for POLLIN and calls do_read_request
\* whatever the state of the connection.
StartRead_AnyState(c) ==
    /\ server = "running"
    /\ cur = 0
    /\ c \in DOMAIN connections
    /\ pending[c] # <<>> \/ peer[c] = "hungup"
    /\ TryFillData(c) \/ TryFillEof(c)
    /\ UNCHANGED <<script, seg, raw>>
    /\ UNCHANGED <<mapVars, protoVars, bufVars>>

\* do_read_request (main.rs:462-490), entered from the poll loop when the
\* socket is readable: its first call of try_fill_buffer.
StartRead(c) ==
    /\ server = "running"
    /\ cur = 0
    /\ c \in DOMAIN connections
    /\ connections[c].state = "ReadRequest"
    /\ pending[c] # <<>> \/ peer[c] = "hungup"
    /\ TryFillData(c) \/ TryFillEof(c)
    /\ UNCHANGED <<script, seg, raw>>
    /\ UNCHANGED <<mapVars, protoVars, bufVars>>

\* do_read_request, the next round of its loop after try_fill_buffer
\* returned true.
ContinueRead(c) ==
    /\ server = "running"
    /\ cur = c
    /\ TryFillData(c) \/ TryFillEof(c) \/ TryFillAgain(c)
    /\ UNCHANGED <<script, seg, raw>>
    /\ UNCHANGED <<mapVars, protoVars, bufVars>>

\* do_send_responses, entered from the poll loop when the socket is
\* writable. A failed write ends main with the error.
DoSendResponses(c) ==
    /\ server = "running"
    /\ cur = 0
    /\ c \in DOMAIN connections
    /\ connections[c].state = "SendResponse"
    /\ \E t \in FlushSizes(connections[c]) \ {0},
          w \in WriteOutcomes(c, connections[c]) :
          IF w = "error"
          THEN /\ server' = "exited"
               /\ cause' = [cause EXCEPT ![c] = "write_error"]
               /\ UNCHANGED <<connections, sent>>
          ELSE /\ connections' = [connections EXCEPT
                      ![c] = do_send_responses(@, t)]
               /\ sent' = [sent EXCEPT ![c] = @ \o Written(connections[c], t)]
               /\ UNCHANGED <<server, cause>>
    /\ UNCHANGED <<context, cur, pending, peer, script, seg, log, raw>>
    /\ UNCHANGED <<mapVars, protoVars, bufVars>>

SrvNext ==
    \E c \in Clients :
       \/ Accept(c)
       \/ AcceptAgain(c)
       \/ PeerClose(c)
       \/ StartRead(c)
       \/ ContinueRead(c)
       \/ DoSendResponses(c)

SpecServer == SrvInit /\ [][SrvNext]_vars

(***************************************************************************)
(* Claims about the server.                                                *)
(***************************************************************************)
IsPrefix(a, b) == Len(a) <= Len(b) /\ SubSeq(b, 1, Len(a)) = a

\* The requests of peer c that were executed, in the order of execution.
Executed(c) == SelectSeq(log, LAMBDA e : e.fd = c)

\* (The entries are split in halves to keep the evaluation shallow.)
RECURSIVE Frames(_)
Frames(entries) ==
    IF entries = <<>> THEN <<>>
    ELSE IF Len(entries) = 1
    THEN ResponseFrame(entries[1].code, entries[1].response)
    ELSE Frames(SubSeq(entries, 1, Len(entries) \div 2))
         \o Frames(SubSeq(entries, Len(entries) \div 2 + 1, Len(entries)))

\* What the server leaves in the write buffer when a request arrives alone,
\* in one read, on a connection whose buffers are empty.
Alone(ctx, cmd) ==
    ProcessRequests(ctx,
        [Connection_new EXCEPT
           !.read_buf = update_write_head(@, RequestFrame(cmd))],
        0, TRUE, <<>>)

RECURSIVE ExpectedStream(_, _)
ExpectedStream(ctx, cmds) ==
    IF cmds = <<>> THEN <<>>
    ELSE readable(Alone(ctx, Head(cmds)).conn.write_buf)
         \o ExpectedStream(Alone(ctx, Head(cmds)).ctx, Tail(cmds))

\* Peer c's requests were all read and everything buffered was written.
Quiet(c) ==
    /\ server = "running"
    /\ c \in DOMAIN connections
    /\ pending[c] = <<>>
    /\ connections[c].state = "ReadRequest"
    /\ connections[c].write_buf.write_head = 0

\* The request of a log entry as Command::parse sees it.
Parsed(e) == Command_parse(e.body, TRUE)

IsSet(e, key) ==
    /\ Parsed(e).kind = "ok"
    /\ Parsed(e).cmd = S_set
    /\ Len(Parsed(e).args) >= 2
    /\ Parsed(e).args[1] = key

IsGet(e, key) ==
    /\ Parsed(e).kind = "ok"
    /\ Parsed(e).cmd = S_get
    /\ Len(Parsed(e).args) >= 1
    /\ Parsed(e).args[1] = key

IsDel(e, key) ==
    /\ Parsed(e).kind = "ok"
    /\ Parsed(e).cmd = S_del
    /\ Len(Parsed(e).args) >= 1
    /\ Parsed(e).args[1] = key

Keys == {Key_a, Key_b}

\* No SET and no DEL of key is executed strictly between log[i] and log[j].
Untouched(key, i, j) ==
    \A m \in (i + 1)..(j - 1) : ~IsSet(log[m], key) /\ ~IsDel(log[m], key)

\* A response that carries the integer n: as the decimal digit, or as a
\* tagged 8-byte big-endian integer.
IsInt(e, n) ==
    /\ e.code = RC_Ok
    /\ e.response \in {<<48 + n>>, <<3, 0, 0, 0, 0, 0, 0, 0, n>>}

\* C1: whatever way the bytes of a peer's N well-formed requests are split
\* across reads, the server executes exactly these N requests, in order, and
\* writes exactly the byte stream it writes when every request arrives alone
\* in a read of its own; well-formed requests do not stop the server.
C1_SplitIndependent ==
    /\ \A c \in Clients :
          /\ IsPrefix(sent[c], ExpectedStream([data |-> <<>>], script[c]))
          /\ Len(Executed(c)) <= Len(script[c])
          /\ \A i \in 1..Len(Executed(c)) :
                i <= Len(script[c]) =>
                   Executed(c)[i].body = RequestBody(script[c][i])
          /\ Quiet(c) =>
                sent[c] = ExpectedStream([data |-> <<>>], script[c])
    /\ server = "panicked" => \E c \in Clients : peer[c] = "hungup"

\* C2: at every moment the bytes written to a peer's socket are a prefix of
\* the framed responses of its executed requests, concatenated in the order
\* of execution: partial writes skip, repeat and reorder nothing.
C2_SentIsPrefix ==
    \A c \in Clients : IsPrefix(sent[c], Frames(Executed(c)))

\* Two responses were buffered and a write stopped inside one of them.
C2_Witness ==
    \E c \in DOMAIN connections :
       /\ Len(Executed(c)) >= 2
       /\ connections[c].state = "SendResponse"
       /\ connections[c].write_buf.read_head % 8 # 0
       /\ sent[c] # <<>>

\* C3: a GET k executed after a SET k v, with no SET or DEL of k between
\* them, on whatever connection, is answered with the value v.
C3_GetAfterSet ==
    \A i \in 1..Len(log), j \in 1..Len(log), key \in Keys :
       (i < j /\ IsSet(log[i], key) /\ IsGet(log[j], key)
          /\ Untouched(key, i, j))
       => /\ log[j].code = RC_Ok
          /\ log[j].response = Parsed(log[i]).args[2]

\* C4: DEL k answers the integer 1 and removes k when k is in the keyspace,
\* answers the integer 0 when it is not, and a GET k that follows with no
\* SET of k between them is answered as absent.
C4_Del ==
    \A j \in 1..Len(log), key \in Keys :
       IsDel(log[j], key) =>
          /\ key \in DOMAIN log[j].before.data =>
                IsInt(log[j], 1) /\ key \notin DOMAIN log[j].after.data
          /\ key \notin DOMAIN log[j].before.data =>
                IsInt(log[j], 0) /\ log[j].after = log[j].before
          /\ \A m \in (j + 1)..Len(log) :
                (IsGet(log[m], key) /\ Untouched(key, j, m))
                => log[m].code = RC_Nx /\ log[m].response = <<>>

\* C5: a GET of a key that is not in the keyspace is answered with the code
\* Nx and no payload, never with an error or a value, and leaves the
\* keyspace as it was.
C5_GetAbsent ==
    \A j \in 1..Len(log), key \in Keys :
       (IsGet(log[j], key) /\ key \notin DOMAIN log[j].before.data)
       => /\ log[j].code = RC_Nx
          /\ log[j].response = <<>>
          /\ log[j].after = log[j].before

\* A GET was executed and its response has reached the peer.
C5_Witness ==
    \E c \in Clients, key \in Keys :
       /\ Executed(c) # <<>>
       /\ IsGet(Executed(c)[Len(Executed(c))], key)
       /\ sent[c] = Frames(Executed(c))


\* C11: a connection is deleted only because its peer closed, because of an
\* I/O error, because of a length prefix above MAX_MSG_LEN or because of a
\* malformed body; a peer that sends well-formed requests and reads the
\* responses is never closed, however many bytes it has sent.
C11_CloseCauses ==
    \A c \in Clients :
       peer[c] = "gone" => cause[c] \in {"eof", "io", "too_long", "malformed"}

\* The next unread frame of a read buffer has a length prefix above
\* MAX_MSG_LEN.
TooLongNext(buf) ==
    /\ Len(readable(buf)) >= HEADER_LEN
    /\ FromBE(SubSeq(readable(buf), 1, HEADER_LEN)) > MAX_MSG_LEN

\* C12: a frame whose length prefix is greater than MAX_MSG_LEN gets its
\* connection removed from the map by the handler that finds it, and no
\* response is written for it: no connection of the map holds such a frame
\* as its next unread one, no such frame is ever executed, and what was
\* written to a connection deleted for this cause answers executed requests
\* only.
C12_TooLongCloses ==
    /\ \A c \in DOMAIN connections : ~TooLongNext(connections[c].read_buf)
    /\ \A i \in 1..Len(log) : Len(log[i].body) <= MAX_MSG_LEN
    /\ \A c \in Clients :
          cause[c] = "too_long" =>
             /\ c \notin DOMAIN connections
             /\ peer[c] = "gone"
             /\ IsPrefix(sent[c], Frames(Executed(c)))

\* A connection was deleted for a length prefix of MAX_MSG_LEN + 1, after a
\* request on it was executed.
C12_Witness ==
    \E c \in Clients :
       /\ cause[c] = "too_long"
       /\ Executed(c) # <<>>
       /\ raw[c] # <<>>

\* The peer sends one request, whose length prefix is MAX_MSG_LEN.
MaxLenPeer(c) ==
    /\ Len(script[c]) = 1
    /\ Len(RequestBody(script[c][1])) = MAX_MSG_LEN
    /\ raw[c] = <<>>

\* C13: a request whose length prefix is exactly MAX_MSG_LEN is executed
\* and answered once the peer has sent it, and the server does not close
\* the connection: the connection goes only after the peer has closed, and
\* not before the request was executed.
C13_MaxLenAnswered ==
    \A c \in Clients :
       MaxLenPeer(c) =>
          /\ peer[c] = "gone" => cause[c] = "eof" /\ Len(Executed(c)) = 1
          /\ (pending[c] = <<>> /\ peer[c] # "connecting")
                => Len(Executed(c)) = 1

\* The body of the frame that peer c sends after its requests, when that is
\* one complete frame.
RawFrame(c) ==
    /\ Len(raw[c]) >= HEADER_LEN
    /\ FromBE(SubSeq(raw[c], 1, HEADER_LEN)) = Len(raw[c]) - HEADER_LEN

RawBody(c) == SubSeq(raw[c], HEADER_LEN + 1, Len(raw[c]))

\* A body that announces no argument, or more arguments or longer strings
\* than it holds.
Malformed(body) ==
    /\ Len(body) >= ARGS_LEN
    /\ \/ FromBE(SubSeq(body, 1, ARGS_LEN)) = 0
       \/ ParseArgs(SubSeq(body, ARGS_LEN + 1, Len(body)),
                    FromBE(SubSeq(body, 1, ARGS_LEN)), <<>>).kind # "ok"

\* C14: a complete frame with a malformed body is fatal to its connection
\* and to nothing else: once the frame is read its connection is deleted,
\* the process keeps running, the keyspace is as it was and no other
\* connection is closed by the server.
C14_MalformedFatal ==
    \A c \in Clients :
       (script[c] = <<>> /\ RawFrame(c) /\ Malformed(RawBody(c))) =>
          /\ server = "running" \/ \E d \in Clients : peer[d] = "hungup"
          /\ (pending[c] = <<>> /\ peer[c] # "connecting")
                => peer[c] = "gone" /\ c \notin DOMAIN connections
          /\ context = [data |-> <<>>]
          /\ \A d \in Clients \ {c} : peer[d] = "gone" => cause[d] = "eof"

\* The entries that a step adds to the log.
Added == SubSeq(log', Len(log) + 1, Len(log'))

ExecutedIn(l, c) == SelectSeq(l, LAMBDA e : e.fd = c)

UnknownName(e) ==
    /\ Parsed(e).kind = "err"
    /\ Parsed(e).error = "UnknownCommand"

\* C15: a request whose command name is none of get, set, del is answered
\* with the error response on its own connection, which keeps its entry in
\* the map while the server keeps running, and the keyspace is as before.
C15_UnknownCommand ==
    [][\A i \in 1..Len(Added) :
         UnknownName(Added[i]) =>
            /\ Added[i].code = RC_Err
            /\ Added[i].response = S_unknown_command
            /\ Added[i].after = Added[i].before
            /\ peer[Added[i].fd] # "hungup" =>
                  /\ server' = "running"
                  /\ Added[i].fd \in DOMAIN connections'
                  /\ IsPrefix(sent'[Added[i].fd],
                              Frames(ExecutedIn(log', Added[i].fd)))
                  /\ Len(Frames(ExecutedIn(log', Added[i].fd)))
                        = Len(sent'[Added[i].fd])
                          + Len(readable(connections'[Added[i].fd].write_buf))
      ]_vars

C15_Witness ==
    \E c \in DOMAIN connections :
       /\ \E i \in 1..Len(Executed(c)) : UnknownName(Executed(c)[i])
       /\ sent[c] = Frames(Executed(c))
       /\ server = "running"

(***************************************************************************)
(* Part 3.  The message codec: src/shared/protocol.rs                      *)
(*                                                                         *)
(* A result is a record whose kind is "ok", "err" (the Error is named in   *)
(* the field error) or "panic" (a slice index out of range or a failed     *)
(* assertion).                                                             *)
(***************************************************************************)
DATA_TYPE_LEN == 1
INTEGER_LEN == 8

\* DataType as u8.
DT_Nil == 0
DT_Err == 1
DT_Str == 2
DT_Int == 3
DT_Arr == 4

Fail(error) == [kind |-> "err", error |-> error]
Panic == [kind |-> "panic"]

\* A mutant: everything after the header is taken for the message.
parse_message_NoLength(buf) ==
    IF Len(buf) < HEADER_LEN THEN Fail("InputTooShort")
    ELSE IF FromBE(SubSeq(buf, 1, HEADER_LEN)) > MAX_MSG_LEN
    THEN Fail("MessageTooLong")
    ELSE [kind |-> "ok", read |-> Len(buf),
          message |-> SubSeq(buf, HEADER_LEN + 1, Len(buf))]

parse_message(buf) ==
    IF Len(buf) < HEADER_LEN THEN Fail("InputTooShort")
    ELSE IF FromBE(SubSeq(buf, 1, HEADER_LEN)) > MAX_MSG_LEN
    THEN Fail("MessageTooLong")
    ELSE IF HEADER_LEN + FromBE(SubSeq(buf, 1, HEADER_LEN)) > Len(buf)
    THEN Panic
    ELSE [kind |-> "ok",
          read |-> HEADER_LEN + FromBE(SubSeq(buf, 1, HEADER_LEN)),
          message |-> SubSeq(buf, HEADER_LEN + 1,
                             HEADER_LEN + FromBE(SubSeq(buf, 1, HEADER_LEN)))]

\* The bodies that are framed: none, the one of the test, requests of the
\* client, the body that is as long as a message may be, and one longer.
S_foobar == <<102, 111, 111, 98, 97, 114>>

Bodies ==
    {<<>>, S_foobar, U32BE(0),
     RequestBody(Cmd_get(Key_a)),
     RequestBody(Cmd_foo(Key_a)),
     RequestBody(Cmd_set(Key_a, Val_1)),
     RequestBody(Cmd_get(Key_max)),
     RequestBody(Cmd_get(Key_max \o Key_a))}

\* What follows the frame in the buffer: nothing, a byte, the start of the
\* next frame, or a whole frame.
Trailings ==
    {<<>>, <<0>>, U32BE(2) \o <<0, 0>>, RequestFrame(Cmd_get(Key_a))}

Encoded(body) == U32BE(Len(body)) \o body

\* How many bytes of a frame of n bytes have arrived when they are not all
\* there.
Cuts(n) == {k \in {0, 3, HEADER_LEN, HEADER_LEN + 1, n - 1} : k < n}

Origins ==
    {[body |-> b, trailing |-> t, keep |-> Len(Encoded(b) \o t)] :
        b \in Bodies, t \in Trailings}
    \cup
    UNION {{[body |-> b, trailing |-> <<>>, keep |-> k] :
               k \in Cuts(Len(Encoded(b)))} : b \in Bodies}

\* The codec is a unit of its own: while it is exercised there is no
\* server and the table stays as constructed.
NoMap ==
    /\ map1 = HashMap_new(1)
    /\ map2 = None
    /\ resizing_pos = 0
    /\ nkeys = 0
    /\ ntouch = 0
    /\ lastOp = NoOp
    /\ gone = {}

ParseInit ==
    /\ \E o \in Origins :
          /\ origin = o
          /\ input = SubSeq(Encoded(o.body) \o o.trailing, 1, o.keep)
    /\ parsed = [kind |-> "none"]
    /\ command = [kind |-> "none"]
    /\ NoWriter
    /\ NoBuffer
    /\ NoServer
    /\ NoMap

\* let (read, request) = parse_message(data)
ParseMessage ==
    /\ parsed.kind = "none"
    /\ parsed' = parse_message(input)
    /\ UNCHANGED <<input, origin, command, writer, pushed, wphase, reader,
                   values>>
    /\ UNCHANGED <<mapVars, srvVars, bufVars>>

\* Command::parse(request)
CommandParse ==
    /\ parsed.kind = "ok"
    /\ command.kind = "none"
    /\ command' = Command_parse(parsed.message, TRUE)
    /\ UNCHANGED <<input, origin, parsed, writer, pushed, wphase, reader,
                   values>>
    /\ UNCHANGED <<mapVars, srvVars, bufVars>>

ParseNext == ParseMessage \/ CommandParse

SpecParse == ParseInit /\ [][ParseNext]_vars

(***************************************************************************)
(* Claims about parse_message.                                             *)
(***************************************************************************)
Whole_frame == origin.keep >= Len(Encoded(origin.body))

\* C16: a frame with length prefix 0 is framed with an empty body, and
\* Command::parse of that body returns the UnknownCommand error.
C16_EmptyBody ==
    (origin.body = <<>> /\ Whole_frame) =>
       /\ parsed.kind # "none" =>
             /\ parsed.kind = "ok"
             /\ parsed.read = HEADER_LEN
             /\ parsed.message = <<>>
       /\ command.kind # "none" =>
             /\ command.kind = "err"
             /\ command.error = "UnknownCommand"

\* C17: the buffer made of the length of b, b and any trailing bytes, for
\* a body b of at most MAX_MSG_LEN bytes, is parsed as (4 + |b|, b).
C17_ParseEncoded ==
    (Len(origin.body) <= MAX_MSG_LEN /\ Whole_frame /\ parsed.kind # "none")
       => /\ parsed.kind = "ok"
          /\ parsed.read = HEADER_LEN + Len(origin.body)
          /\ parsed.message = origin.body

C17_Witness ==
    /\ parsed.kind = "ok"
    /\ Len(origin.body) = MAX_MSG_LEN
    /\ origin.trailing = RequestFrame(Cmd_get(Key_a))

\* C18: a buffer with the 4 bytes of a length L <= MAX_MSG_LEN and fewer
\* than 4 + L bytes in all is answered with the error Incomplete.
C18_Incomplete ==
    (/\ Len(input) >= HEADER_LEN
     /\ FromBE(SubSeq(input, 1, HEADER_LEN)) <= MAX_MSG_LEN
     /\ Len(input) < HEADER_LEN + FromBE(SubSeq(input, 1, HEADER_LEN))
     /\ parsed.kind # "none")
       => /\ parsed.kind = "err"
          /\ parsed.error = "Incomplete"

(***************************************************************************)
(* Writer (protocol.rs:286-457). The buffer is the whole array of BUF_LEN  *)
(* bytes. A u64 is the pair of its high and low 32 bits.                   *)
(***************************************************************************)
U64(hi, lo) == [hi |-> hi, lo |-> lo]
U64BE(v) == U32BE(v.hi) \o U32BE(v.lo)
FromBE64(b) == U64(FromBE(SubSeq(b, 1, 4)), FromBE(SubSeq(b, 5, 8)))

\* buf[pos..pos + bytes.len()].copy_from_slice(bytes)
Put(buf, pos, bytes) ==
    [i \in 1..Len(buf) |->
        IF i > pos /\ i <= pos + Len(bytes) THEN bytes[i - pos] ELSE buf[i]]

Wrote(w, bytes) ==
    [kind |-> "ok",
     w |-> [buf |-> Put(w.buf, w.pos, bytes), pos |-> w.pos + Len(bytes)]]

Writer_new == [buf |-> [i \in 1..BUF_LEN |-> 0], pos |-> HEADER_LEN]

finish(w) == [w EXCEPT !.buf = Put(w.buf, 0, U32BE(w.pos - HEADER_LEN))]

written(w) == w.pos

push_nil(w) ==
    IF w.pos >= Len(w.buf) THEN Panic ELSE Wrote(w, <<DT_Nil>>)

push_int(w, value) ==
    IF w.pos + DATA_TYPE_LEN + INTEGER_LEN > Len(w.buf) THEN Panic
    ELSE Wrote(w, <<DT_Int>> \o U64BE(value))

push_string(w, bytes) ==
    IF ~(Len(w.buf) - w.pos > Len(bytes) + DATA_TYPE_LEN + STRING_LEN)
    THEN Panic
    ELSE Wrote(w, <<DT_Str>> \o U32BE(Len(bytes)) \o bytes)

push_err(w, code, bytes) ==
    IF ~(Len(w.buf) - w.pos
           >= DATA_TYPE_LEN + RESPONSE_CODE_LEN + STRING_LEN + Len(bytes))
    THEN Panic
    ELSE Wrote(w, <<DT_Err>> \o U32BE(code) \o U32BE(Len(bytes)) \o bytes)

(***************************************************************************)
(* Reader (protocol.rs:74-225). A read returns the value and the Reader    *)
(* afterwards.                                                             *)
(***************************************************************************)
Reader_new(buf) == [buf |-> buf, pos |-> 0]

has_more(r) == r.pos < Len(r.buf)

Got(value, r, n) ==
    [kind |-> "ok", value |-> value, r |-> [r EXCEPT !.pos = r.pos + n]]

\* read_int_::<u32, 4>
read_u32(r) ==
    IF Len(r.buf) - r.pos < 4 THEN Fail("InputTooShort")
    ELSE Got(FromBE(SubSeq(r.buf, r.pos + 1, r.pos + 4)), r, 4)

\* read_int_::<u64, 8>
read_u64(r) ==
    IF Len(r.buf) - r.pos < INTEGER_LEN THEN Fail("InputTooShort")
    ELSE Got(FromBE64(SubSeq(r.buf, r.pos + 1, r.pos + INTEGER_LEN)), r,
             INTEGER_LEN)

read_data_type(r) ==
    IF r.pos >= Len(r.buf) THEN Fail("InputTooShort")
    ELSE IF r.buf[r.pos + 1] \in {DT_Nil, DT_Err, DT_Str, DT_Int, DT_Arr}
    THEN Got(r.buf[r.pos + 1], r, 1)
    ELSE Fail("InvalidDataType")

\* What follows read_data_type()? in read_int, read_string and
\* read_data_type_err: t is its result and want the type asked for.
Typed(t, want) ==
    IF t.kind # "ok" THEN t
    ELSE IF t.value # want THEN Fail("IncoherentDataType")
    ELSE t

\* &self.buf[self.pos..self.pos + length]
Slice(r, l) ==
    IF l.kind # "ok" THEN l
    ELSE IF l.r.pos + l.value > Len(r.buf) THEN Panic
    ELSE Got(SubSeq(r.buf, l.r.pos + 1, l.r.pos + l.value), l.r, l.value)

read_int(r) ==
    IF Typed(read_data_type(r), DT_Int).kind # "ok"
    THEN Typed(read_data_type(r), DT_Int)
    ELSE read_u64(read_data_type(r).r)

read_string(r) ==
    IF Typed(read_data_type(r), DT_Str).kind # "ok"
    THEN Typed(read_data_type(r), DT_Str)
    ELSE Slice(r, read_u32(read_data_type(r).r))

\* The end of read_err: c is the response code read, s the message.
ErrOf(c, s) ==
    IF s.kind # "ok" THEN s
    ELSE [s EXCEPT !.value = [code |-> c.value, message |-> s.value]]

read_err(r) ==
    IF read_u32(r).kind # "ok" THEN read_u32(r)
    ELSE ErrOf(read_u32(r), Slice(r, read_u32(read_u32(r).r)))

read_data_type_err(r) ==
    IF Typed(read_data_type(r), DT_Err).kind # "ok"
    THEN Typed(read_data_type(r), DT_Err)
    ELSE read_err(read_data_type(r).r)

(***************************************************************************)
(* A Writer is filled, finished, and its message is read back.             *)
(***************************************************************************)
MaxPushes == 3

\* "foo", as in the tests; the string that with its 5 bytes of type and
\* length fills the body of a message exactly; the error message that does
\* so with its 9 bytes of type, code and length.
S_fill == [i \in 1..(MAX_MSG_LEN - DATA_TYPE_LEN - STRING_LEN) |-> 97]
S_fill_err ==
    [i \in 1..(MAX_MSG_LEN - DATA_TYPE_LEN - RESPONSE_CODE_LEN - STRING_LEN)
       |-> 97]

Ints == {U64(0, 20), U64(1, 2)}
Strings == {S_foo, S_fill}
Errs == {[code |-> RC_Err, message |-> S_foo],
         [code |-> RC_Nx, message |-> S_fill_err]}

Nil == [type |-> DT_Nil]
Int(v) == [type |-> DT_Int, value |-> v]
Str(v) == [type |-> DT_Str, value |-> v]
Err(v) == [type |-> DT_Err, value |-> v]

WriterInit ==
    /\ writer = Writer_new
    /\ pushed = <<>>
    /\ wphase = "writing"
    /\ reader = [buf |-> <<>>, pos |-> 0]
    /\ values = <<>>
    /\ NoParse
    /\ NoBuffer
    /\ NoServer
    /\ NoMap

\* One push: v is the value and p what the push returned.
Push(v, p) ==
    /\ pushed' = Append(pushed, v)
    /\ IF p.kind = "ok"
       THEN writer' = p.w /\ wphase' = "writing"
       ELSE writer' = writer /\ wphase' = "panicked"
    /\ UNCHANGED <<input, origin, parsed, command, reader, values>>
    /\ UNCHANGED <<mapVars, srvVars, bufVars>>

\* writer.push_nil()
PushNil ==
    /\ wphase = "writing"
    /\ Len(pushed) < MaxPushes
    /\ Push(Nil, push_nil(writer))

\* writer.push_int(v)
PushInt ==
    /\ wphase = "writing"
    /\ Len(pushed) < MaxPushes
    /\ \E v \in Ints : Push(Int(v), push_int(writer, v))

\* writer.push_string(v)
PushString ==
    /\ wphase = "writing"
    /\ Len(pushed) < MaxPushes
    /\ \E v \in Strings : Push(Str(v), push_string(writer, v))

\* writer.push_err(code, message)
PushErr ==
    /\ wphase = "writing"
    /\ Len(pushed) < MaxPushes
    /\ \E v \in Errs : Push(Err(v), push_err(writer, v.code, v.message))

\* writer.finish()
Finish ==
    /\ wphase = "writing"
    /\ writer' = finish(writer)
    /\ wphase' = "finished"
    /\ UNCHANGED <<input, origin, parsed, command, pushed, reader, values>>
    /\ UNCHANGED <<mapVars, srvVars, bufVars>>

\* The bytes &buf[0..written] are parsed and a Reader is put on the body.
Receive ==
    /\ wphase = "finished"
    /\ IF parse_message(SubSeq(writer.buf, 1, written(writer))).kind = "ok"
       THEN /\ reader' = Reader_new(
                   parse_message(SubSeq(writer.buf, 1, written(writer)))
                       .message)
            /\ wphase' = "reading"
       ELSE /\ reader' = reader
            /\ wphase' = "panicked"
    /\ UNCHANGED <<input, origin, parsed, command, writer, pushed, values>>
    /\ UNCHANGED <<mapVars, srvVars, bufVars>>

\* The read that goes with a pushed value.
ReadAs(v, r) ==
    IF v.type = DT_Nil THEN read_data_type(r)
    ELSE IF v.type = DT_Int THEN read_int(r)
    ELSE IF v.type = DT_Str THEN read_string(r)
    ELSE read_data_type_err(r)

\* What a read returned, as a typed value.
Value(v, g) ==
    IF g.kind # "ok" THEN [type |-> g.kind]
    ELSE IF v.type = DT_Nil THEN [type |-> g.value]
    ELSE [type |-> v.type, value |-> g.value]

Read(v, g) ==
    /\ values' = Append(values, Value(v, g))
    /\ IF g.kind = "ok"
       THEN reader' = g.r /\ wphase' = "reading"
       ELSE reader' = reader /\ wphase' = "panicked"

\* The next value is read with the read of its type.
ReadValue ==
    /\ wphase = "reading"
    /\ Len(values) < Len(pushed)
    /\ Read(pushed[Len(values) + 1],
            ReadAs(pushed[Len(values) + 1], reader))
    /\ UNCHANGED <<input, origin, parsed, command, writer, pushed>>
    /\ UNCHANGED <<mapVars, srvVars, bufVars>>

WriterNext ==
    PushNil \/ PushInt \/ PushString \/ PushErr \/ Finish \/ Receive
       \/ ReadValue

SpecWriter == WriterInit /\ [][WriterNext]_vars

(***************************************************************************)
(* Claims about Writer and Reader.                                         *)
(***************************************************************************)
\* The bytes a pushed value is encoded in: its type and its payload.
EncodedSize(v) ==
    IF v.type = DT_Nil THEN DATA_TYPE_LEN
    ELSE IF v.type = DT_Int THEN DATA_TYPE_LEN + INTEGER_LEN
    ELSE IF v.type = DT_Str THEN DATA_TYPE_LEN + STRING_LEN + Len(v.value)
    ELSE DATA_TYPE_LEN + RESPONSE_CODE_LEN + STRING_LEN
            + Len(v.value.message)

RECURSIVE SumSizes(_)
SumSizes(vs) ==
    IF vs = <<>> THEN 0 ELSE EncodedSize(Head(vs)) + SumSizes(Tail(vs))

\* The pushes fit in the buffer: the header and all the encoded values.
Fits(vs) == HEADER_LEN + SumSizes(vs) <= BUF_LEN

\* C19: pushes that fit in the buffer all succeed, and after finish the
\* Reader over the body returns the pushed values in order, with their
\* types and payloads; when all are read has_more is false.
C19_RoundTrip ==
    Fits(pushed) =>
       /\ wphase # "panicked"
       /\ wphase = "reading" =>
             /\ values = SubSeq(pushed, 1, Len(values))
             /\ Len(values) = Len(pushed) => ~has_more(reader)
             /\ Len(values) < Len(pushed) => has_more(reader)

\* C20: after pushes that fit in the buffer, finish stores written() - 4 in
\* the first four bytes, big-endian, and that is the sum of the encoded
\* sizes of the pushed values; with no push written() is 4 and the length 0.
C20_FinishLength ==
    Fits(pushed) =>
       /\ wphase # "panicked"
       /\ wphase = "writing" => written(writer) = HEADER_LEN + SumSizes(pushed)
       /\ wphase \in {"finished", "reading"} =>
             /\ SubSeq(writer.buf, 1, HEADER_LEN)
                   = U32BE(written(writer) - HEADER_LEN)
             /\ written(writer) - HEADER_LEN = SumSizes(pushed)
             /\ pushed = <<>> =>
                   /\ written(writer) = HEADER_LEN
                   /\ SubSeq(writer.buf, 1, HEADER_LEN) = <<0, 0, 0, 0>>

(***************************************************************************)
(* KeyIter (hash_map.rs:150-234). current is (which table, bucket, index   *)
(* in the bucket). A next returns the key as an Option and the iterator    *)
(* afterwards; kind "panic" is a bucket index out of range.                *)
(***************************************************************************)
key_iter == <<0, 0, 0>>

KeyIter_len(s) ==
    s.map1.size + (IF s.map2 = None THEN 0 ELSE s.map2[1].size)

\* next_key_from_hashmap with next_key_from_bucket inlined: which is the
\* table m is (0 for map1, 1 for map2).
RECURSIVE next_key_from_hashmap(_, _, _, _)
next_key_from_hashmap(m, which, bucket_pos, pos) ==
    IF m = None
    THEN [kind |-> "ok", key |-> None, current |-> <<which, bucket_pos, pos>>]
    ELSE IF bucket_pos >= Len(m[1].data) THEN [kind |-> "panic"]
    ELSE IF pos < Len(m[1].data[bucket_pos + 1])
    THEN [kind |-> "ok", key |-> Some(m[1].data[bucket_pos + 1][pos + 1][1]),
          current |-> <<which, bucket_pos, pos + 1>>]
    ELSE IF bucket_pos + 1 >= Len(m[1].data)
    THEN [kind |-> "ok", key |-> None, current |-> <<which, bucket_pos + 1, 0>>]
    ELSE next_key_from_hashmap(m, which, bucket_pos + 1, 0)

\* The end of next when map1 was asked: r is what it returned.
AfterMap1(s, r) ==
    IF r.kind # "ok" \/ r.key # None THEN r
    ELSE next_key_from_hashmap(s.map2, 1, 0, 0)

KeyIter_next(s, current) ==
    IF current[1] = 0
    THEN AfterMap1(s, next_key_from_hashmap(Some(s.map1), 0, current[2],
                                            current[3]))
    ELSE next_key_from_hashmap(s.map2, 1, current[2], current[3])

\* The keys of the buckets b, b + 1, ... of data, in the order of the
\* buckets and of the entries in each.
RECURSIVE KeysFrom(_, _)
KeysFrom(data, b) ==
    IF b > Len(data) THEN <<>>
    ELSE [i \in 1..Len(data[b]) |-> data[b][i][1]] \o KeysFrom(data, b + 1)

\* Iterator::collect, which calls next until it returns None, in closed
\* form: next walks the buckets of map1 from the first to the last, then
\* those of map2, and returns None for the first time after the last bucket
\* of map2 (of map1 when there is no map2).
collect(s) ==
    KeysFrom(s.map1.data, 1)
       \o (IF s.map2 = None THEN <<>> ELSE KeysFrom(s.map2[1].data, 1))

\* What the first call of next returns, as collect has it.
FirstOf(keys) == IF keys = <<>> THEN None ELSE Some(Head(keys))

\* The keys that were ever inserted.
Inserted == 0..(nkeys - 1)

\* C21: key_iter().len() is the number of keys that key_iter() yields until
\* it is exhausted, and that is the number of distinct keys for which get
\* returns Some.
C21_KeyIterLen ==
    /\ KeyIter_next(Table, key_iter).kind = "ok"
    /\ KeyIter_next(Table, key_iter).key = FirstOf(collect(Table))
    /\ KeyIter_len(Table) = Len(collect(Table))
    /\ KeyIter_len(Table)
          = Cardinality({k \in Inserted : SuperHashMap_get(Table, k) # None})

\* SuperHashMap::insert up to its call of help_resizing.
BeforeHelp(s, key, value) ==
    IF HashMap_insert(s.map1, key, value).size
          \div (s.map1.mask + 1) > MAX_LOAD_FACTOR
    THEN start_resizing([s EXCEPT !.map1 = HashMap_insert(s.map1, key, value)])
    ELSE [s EXCEPT !.map1 = HashMap_insert(s.map1, key, value)]

\* C22: the migration step of an insert leaves get as it is for every key:
\* get(k) after help_resizing is get(k) before it, also for a key whose new
\* value is in map1 while its older entry is still in map2.
C22_MigrationKeepsGet ==
    [][lastOp'.op = "insert" =>
         /\ Table' = help_resizing(BeforeHelp(Table, lastOp'.key, lastOp'.val))
         /\ \A k \in Inserted' :
               SuperHashMap_get(Table', k)
                  = SuperHashMap_get(
                        BeforeHelp(Table, lastOp'.key, lastOp'.val), k)
      ]_vars

(***************************************************************************)
(* More claims about the server.                                           *)
(***************************************************************************)
\* C23: the responses to the requests of one read never go beyond the
\* write buffer: the server stops taking requests from the read buffer
\* when the next response has no room, and does not fail.
C23_ResponsesFit ==
    /\ \A c \in Clients : cause[c] # "overflow"
    /\ \A c \in DOMAIN connections :
          connections[c].write_buf.write_head <= BUF_LEN

\* C24: remove_processed leaves readable() as it is and read_head at 0, so
\* that write_head is the number of pending bytes, for every buffer,
\* with bytes pending or not.
C24_Compaction ==
    \A c \in DOMAIN connections :
       /\ readable(remove_processed(connections[c].read_buf))
             = readable(connections[c].read_buf)
       /\ remove_processed(connections[c].read_buf).read_head = 0
       /\ remove_processed(connections[c].read_buf).write_head
             = Len(readable(connections[c].read_buf))

Heads(buf) ==
    /\ 0 <= buf.read_head
    /\ buf.read_head <= buf.write_head
    /\ buf.write_head <= BUF_LEN

\* C25: in every state of every connection both buffers have
\* 0 <= read_head <= write_head <= BUF_LEN.
C25_HeadsInOrder ==
    \A c \in DOMAIN connections :
       Heads(connections[c].read_buf) /\ Heads(connections[c].write_buf)

\* C25's case: requests were consumed from the read buffer and a part of the
\* responses was written, with the rest still to write.
C25_Witness ==
    \E c \in DOMAIN connections :
       /\ 0 < connections[c].read_buf.read_head
       /\ 0 < connections[c].write_buf.read_head
       /\ connections[c].write_buf.read_head
             < connections[c].write_buf.write_head

(***************************************************************************)
(* Part 4. ConnectionBuffer of connection_buffer.rs, driven by a caller    *)
(* that fills it, consumes from it, compacts it, resets it and asks        *)
(* whether it is empty. The methods it shares with the ConnectionBuffer    *)
(* of main.rs (readable, writable, remove_processed) are the operators of  *)
(* Part 2; here update_write_head and update_read_head carry their         *)
(* assertions, whose failure is a panic.                                   *)
(***************************************************************************)
\* The sizes in which the caller fills and consumes.
Sizes == {100, 1000, 4000}

\* The bytes the caller stores.
Chunk(n) == [i \in 1..n |-> 1]

\* assert!(self.write_head < self.data.len())
write_head_ok(buf) == buf.write_head < BUF_LEN

\* assert!(self.read_head <= self.write_head)
read_head_ok(buf) == buf.read_head <= buf.write_head

reset(buf) == [buf EXCEPT !.read_head = 0, !.write_head = 0]

\* a - b on usize: the difference, or with a < b the wrapped difference
\* 2^64 - (b - a) of a release build, of which only `below` = b - a is kept;
\* a debug build panics instead.
usize_sub(a, b, bld) ==
    IF a >= b THEN [kind |-> "ok", wrapped |-> FALSE, below |-> 0,
                    value |-> a - b]
    ELSE IF bld = "debug" THEN [kind |-> "panic", wrapped |-> TRUE]
    ELSE [kind |-> "ok", wrapped |-> TRUE, below |-> b - a, value |-> 0]

\* `remaining == 0`: a wrapped difference 2^64 - below, with
\* 0 < below <= BUF_LEN, is not 0.
is_zero(r) == ~r.wrapped /\ r.value = 0

\* is_empty: `self.read_head - self.write_head`, compared with 0.
is_empty(buf, bld) ==
    LET remaining == usize_sub(buf.read_head, buf.write_head, bld)
    IN  IF remaining.kind = "panic"
        THEN [op |-> "is_empty", result |-> "panic", underflow |-> TRUE,
              value |-> FALSE, before |-> buf]
        ELSE [op |-> "is_empty", result |-> "ok",
              underflow |-> remaining.wrapped,
              value |-> is_zero(remaining), before |-> buf]

Called(op, n, ok, before) ==
    [op |-> op, n |-> n, result |-> IF ok THEN "ok" ELSE "panic",
     before |-> before]

BufInit ==
    /\ buffer = ConnectionBuffer_new
    /\ call = [op |-> "new"]
    /\ build \in {"debug", "release"}
    /\ NoServer
    /\ NoMap
    /\ NoParse
    /\ NoWriter

Alive == call.op # "none" /\ (call.op # "new" => call.result = "ok")

\* The caller stores n bytes in writable() and calls update_write_head(n).
BufFill ==
    /\ Alive
    /\ \E n \in Sizes :
          /\ n <= writable(buffer)
          /\ buffer' = update_write_head(buffer, Chunk(n))
          /\ call' = Called("update_write_head", n, write_head_ok(buffer'),
                            buffer)
    /\ UNCHANGED build
    /\ UNCHANGED <<mapVars, srvVars, protoVars>>

\* The caller takes n bytes of readable() and calls update_read_head(n).
BufConsume ==
    /\ Alive
    /\ \E n \in Sizes :
          /\ n <= Len(readable(buffer))
          /\ buffer' = [buffer EXCEPT !.read_head = @ + n]
          /\ call' = Called("update_read_head", n, read_head_ok(buffer'),
                            buffer)
    /\ UNCHANGED build
    /\ UNCHANGED <<mapVars, srvVars, protoVars>>

BufRemoveProcessed ==
    /\ Alive
    /\ call.op # "remove_processed"
    /\ buffer' = remove_processed(buffer)
    /\ call' = Called("remove_processed", 0, TRUE, buffer)
    /\ UNCHANGED build
    /\ UNCHANGED <<mapVars, srvVars, protoVars>>

BufReset ==
    /\ Alive
    /\ call.op # "reset"
    /\ buffer' = reset(buffer)
    /\ call' = Called("reset", 0, TRUE, buffer)
    /\ UNCHANGED build
    /\ UNCHANGED <<mapVars, srvVars, protoVars>>

BufIsEmpty ==
    /\ Alive
    /\ call.op # "is_empty"
    /\ call' = is_empty(buffer, build)
    /\ UNCHANGED <<buffer, build>>
    /\ UNCHANGED <<mapVars, srvVars, protoVars>>

BufNext ==
    BufFill \/ BufConsume \/ BufRemoveProcessed \/ BufReset \/ BufIsEmpty

SpecBuffer == BufInit /\ [][BufNext]_vars

\* C26: a buffer can be filled to exactly its capacity: the call of
\* update_write_head that makes write_head = BUF_LEN is accepted, and the
\* buffer when drained afterwards is reset with both heads at 0.
C26_FillToCapacity ==
    /\ (call.op = "update_write_head" /\ buffer.write_head = BUF_LEN)
          => call.result = "ok"
    /\ (call.op = "reset" /\ call.before.write_head = BUF_LEN)
          => (buffer.read_head = 0 /\ buffer.write_head = 0)

\* C27: for a buffer with read_head <= write_head, is_empty returns, and
\* returns TRUE exactly when read_head = write_head, and no subtraction
\* goes below 0.
C27_IsEmpty ==
    (call.op = "is_empty" /\ call.before.read_head <= call.before.write_head)
       => /\ call.result = "ok"
          /\ call.value = (call.before.read_head = call.before.write_head)
          /\ ~call.underflow

(***************************************************************************)
(* More claims about the server: try_one_request and the two states of a   *)
(* connection.                                                             *)
(***************************************************************************)
\* The length prefix of the bytes pending in buf, which has a whole header.
PrefixOf(buf) == FromBE(SubSeq(readable(buf), 1, HEADER_LEN))

\* buf holds less than a header, or less than its header says.
Incomplete(buf) ==
    \/ Len(readable(buf)) < HEADER_LEN
    \/ Len(readable(buf)) < HEADER_LEN + PrefixOf(buf)

\* try_one_request returned false and left everything as it was.
ReturnedFalse(r, ctx, conn) ==
    /\ r.kind = "wait"
    /\ r.conn = conn
    /\ r.ctx = ctx
    /\ r.entries = <<>>

\* The connection of c inside try_fill_buffer, after the read of this step
\* and before the first call of try_one_request.
AfterRead(c) ==
    [connections[c] EXCEPT
       !.read_buf = update_write_head(remove_processed(@),
                       SubSeq(pending[c], 1,
                              Len(pending[c]) - Len(pending'[c])))]

Reads(c) == c \in DOMAIN connections /\ Len(pending'[c]) < Len(pending[c])

\* try_one_request, called on conn with ctx, reports "incomplete" and
\* changes nothing.
Waits(ctx, conn, c) ==
    \A allocOk \in BOOLEAN :
       ReturnedFalse(try_one_request(ctx, conn, c, allocOk), ctx, conn)

\* The step leaves of c what the read left: nothing is executed or framed,
\* the keyspace is the same and the connection is still there.
NothingDone(c) ==
    /\ log' = log
    /\ context' = context
    /\ c \in DOMAIN connections'
    /\ connections'[c].read_buf = AfterRead(c).read_buf
    /\ connections'[c].write_buf = connections[c].write_buf
    /\ sent'[c] = sent[c]

\* C28 as stated: whenever the read buffer holds less than a header or less
\* than 4 + length bytes of the next frame, try_one_request reports
\* "incomplete" and changes nothing: no head of either buffer moves, no
\* response is framed and the keyspace is unchanged.
C28_Incomplete ==
    [][\A c \in Clients :
          Reads(c) /\ Incomplete(AfterRead(c).read_buf)
             => Waits(context, AfterRead(c), c) /\ NothingDone(c)]_vars

\* C28 amended: whenever the read buffer holds less than a header, or a
\* header whose length is not above MAX_MSG_LEN and less than 4 + length
\* bytes, try_one_request reports "incomplete" and changes nothing: no head
\* of either buffer moves, no response is framed and the keyspace is
\* unchanged.
C28_IncompleteInLimit ==
    [][\A c \in Clients :
          /\ (/\ Reads(c)
              /\ Incomplete(AfterRead(c).read_buf)
              /\ Len(readable(AfterRead(c).read_buf)) >= HEADER_LEN
                    => PrefixOf(AfterRead(c).read_buf) <= MAX_MSG_LEN)
                => Waits(context, AfterRead(c), c) /\ NothingDone(c)
          /\ (/\ c \in DOMAIN connections'
              /\ Incomplete(connections'[c].read_buf))
                => Waits(context', connections'[c], c)]_vars

\* C28's case: try_fill_buffer has read a part of a request, and its loop
\* of try_one_request has ended with the bytes still pending; once with less
\* than a header, once with a header and less than the body.
C28_Witness ==
    \E c \in DOMAIN connections :
       /\ cur = c
       /\ readable(connections[c].read_buf) # <<>>
       /\ Incomplete(connections[c].read_buf)
       /\ Len(readable(connections[c].read_buf)) >= HEADER_LEN
       /\ PrefixOf(connections[c].read_buf) <= MAX_MSG_LEN
       /\ connections[c].read_buf.read_head > 0

\* Every byte framed for c has been written to its socket and the heads of
\* its write buffer are at 0.
Drained(c) ==
    /\ connections[c].write_buf.read_head = 0
    /\ connections[c].write_buf.write_head = 0
    /\ sent[c] = Frames(Executed(c))

\* C29: a connection is in ReadRequest only with every byte of its write
\* buffer written to the socket and both heads of the write buffer at 0, be
\* it back from SendResponse or at the start of a round of the event loop.
C29_ReadRequestDrained ==
    server = "running"
       => \A c \in DOMAIN connections :
             connections[c].state = "ReadRequest" => Drained(c)

\* C29's case: responses that went out a byte at a time, over rounds of the
\* event loop, are all written and the connection is in ReadRequest again
\* at the start of a round.
C29_Witness ==
    /\ server = "running"
    /\ cur = 0
    /\ seg.write = 1
    /\ \E c \in DOMAIN connections :
          /\ connections[c].state = "ReadRequest"
          /\ Len(Executed(c)) >= 2
          /\ Drained(c)

\* C30: while a connection is in SendResponse, no step of the server reads
\* from its socket or parses or executes a request of its read buffer, and
\* its read buffer stays as it is.
C30_NoReadWhileSending ==
    [][\A c \in DOMAIN connections :
          connections[c].state = "SendResponse"
             => /\ pending'[c] = pending[c]
                /\ ExecutedIn(log', c) = ExecutedIn(log, c)
                /\ c \in DOMAIN connections'
                      => connections'[c].read_buf = connections[c].read_buf
      ]_vars

\* C30's case: at the start of a round of the event loop a connection is in
\* SendResponse with a part of its responses written, requests consumed
\* from its read buffer and more bytes of the peer waiting on the socket.
C30_Witness ==
    /\ server = "running"
    /\ cur = 0
    /\ \E c \in DOMAIN connections :
          /\ connections[c].state = "SendResponse"
          /\ connections[c].write_buf.read_head > 0
          /\ connections[c].read_buf.read_head > 0
          /\ pending[c] # <<>>

(***************************************************************************)
(* Claims about the ends of connections and of the server.                 *)
(***************************************************************************)
\* C31: when a read on a connection returns no byte because the peer has
\* closed, the step that made the read removes the connection from the map
\* and closes its fd, the server runs on, and no byte is written to the
\* connection in that step or ever after.
C31_EofCloses ==
    [][\A c \in Clients :
          /\ (cause[c] # "eof" /\ cause'[c] = "eof")
                => /\ c \in DOMAIN connections
                   /\ c \notin DOMAIN connections'
                   /\ peer'[c] = "gone"
                   /\ sent'[c] = sent[c]
                   /\ server' = "running"
          /\ cause[c] = "eof"
                => /\ c \notin DOMAIN connections'
                   /\ sent'[c] = sent[c]]_vars

\* C31's case: a peer was answered, closed, and its connection is gone
\* after the read that returned no byte, while the server runs on.
C31_Witness ==
    /\ server = "running"
    /\ \E c \in Clients :
          /\ cause[c] = "eof"
          /\ c \notin DOMAIN connections
          /\ sent[c] # <<>>

\* C32: a write on a connection that fails with an error other than EAGAIN,
\* in the flush that follows a read or in a round of SendResponse, closes
\* and removes that connection only: the event loop keeps running.
C32_WriteErrorLocal ==
    \A c \in Clients :
       cause[c] = "write_error"
          => server = "running" /\ c \notin DOMAIN connections

\* C33: when accept on the listening fd fails with EAGAIN after poll flagged
\* it, no connection is made and the event loop goes on: the server does
\* not terminate.
C33_AcceptAgainGoesOn ==
    \A c \in Clients :
       cause[c] = "accept_again"
          => server = "running" /\ c \notin DOMAIN connections

(***************************************************************************)
(* More claims about the hash table: sizes, resizes and migration steps.   *)
(***************************************************************************)
\* The number of entries in the buckets of m.
StoredIn(m) == Before(m.data, 0, Len(m.data) + 1)

\* C34: the size field of map1, and of map2 when there is one, is the number
\* of entries stored in the buckets of that table.
C34_SizeIsStored ==
    /\ map1.size = StoredIn(map1)
    /\ Resizing => map2[1].size = StoredIn(map2[1])

\* The table inside insert(key, value) after self.map1.insert and before the
\* load factor is looked at.
AfterMap1Insert(s, key, value) ==
    [s EXCEPT !.map1 = HashMap_insert(s.map1, key, value)]

\* insert(key, value) on s calls start_resizing.
StartsResize(s, key, value) ==
    AfterMap1Insert(s, key, value).map1.size
        \div (AfterMap1Insert(s, key, value).map1.mask + 1) > MAX_LOAD_FACTOR

\* start_resizing took old to new: an empty map1 of twice the buckets, the
\* map1 of before as map2, the cursor at 0.
Resized(old, new) ==
    /\ Len(new.map1.data) = 2 * Len(old.map1.data)
    /\ \A b \in 1..Len(new.map1.data) : new.map1.data[b] = <<>>
    /\ new.map1.size = 0
    /\ new.map1.mask = Len(new.map1.data) - 1
    /\ \E k \in 0..10 : Len(new.map1.data) = 2 ^ k
    /\ new.map2 = Some(old.map1)
    /\ new.resizing_pos = 0

\* C35: when insert starts a resize, the table before the migration step of
\* that insert has an empty map1 of exactly twice the buckets (a power of
\* two, mask = buckets - 1), the map1 of before with all its entries as map2,
\* and the cursor at 0.
C35_StartResizing ==
    [][(lastOp'.op = "insert"
          /\ StartsResize(Table, lastOp'.key, lastOp'.val))
         => Resized(AfterMap1Insert(Table, lastOp'.key, lastOp'.val),
                    BeforeHelp(Table, lastOp'.key, lastOp'.val))]_vars

\* C35's case: an insert has started the resize of a table of 16 buckets and
\* made the first migration step, which left entries in map2.
C35_Witness ==
    /\ lastOp.op = "insert"
    /\ Resizing
    /\ Len(map1.data) = 2 * Len(map2[1].data)
    /\ StoredIn(map1) = map1.size
    /\ map1.size = map2[1].size - StoredIn(map2[1])

\* The number of entries a step took out of map2, which was there before the
\* migration step of the insert.
Moved(b, after) ==
    IF b.map2 = None THEN 0
    ELSE StoredIn(b.map2[1])
           - (IF after.map2 = None THEN 0 ELSE StoredIn(after.map2[1]))

\* C36: one call of insert moves at most MAX_RESIZING_WORK entries from map2
\* to map1.
C36_WorkBounded ==
    [][lastOp'.op = "insert"
         => Moved(BeforeHelp(Table, lastOp'.key, lastOp'.val), Table')
               <= MAX_RESIZING_WORK]_vars

\* From s, whose map2 is present, to t a migration step was made: an entry
\* of map2 went to map1, or the cursor advanced, or map2 was released.
MigrationStep(s, t) ==
    \/ t.map2 = None
    \/ t.resizing_pos > s.resizing_pos
    \/ \E e \in EntriesOf(s.map2[1]) \ EntriesOf(t.map2[1]) :
          e[1] \in KeysOf(t.map1)

\* C37: while map2 is present, every call of insert and every call of remove
\* makes a migration step.
C37_EveryMutationMigrates ==
    [][(Resizing /\ lastOp'.op \in {"insert", "remove"})
          => MigrationStep(Table, Table')]_vars

\* C38: once a resize has started, finitely many further calls of insert
\* bring the cursor to the end of map2: every insert with map2 present takes
\* entries out of it or releases it, and with inserts going on map2 is
\* released in the end, the cursor back at 0. map2 is released by an insert
\* only, and every entry it held before the migration step of that insert
\* is then in map1.
C38_Released ==
    /\ Resizing ~> ((~Resizing /\ resizing_pos = 0) \/ ~InsertsLeft)
    /\ [](~Resizing => resizing_pos = 0)
    /\ [][(Resizing /\ lastOp'.op = "insert")
             => \/ ~Resizing'
                \/ StoredIn(map2'[1]) < StoredIn(map2[1])]_vars
    /\ [][(Resizing /\ ~Resizing') => lastOp'.op = "insert"]_vars
    /\ [][(/\ lastOp'.op = "insert"
            /\ BeforeHelp(Table, lastOp'.key, lastOp'.val).map2 # None
            /\ ~Resizing')
             => \A e \in EntriesOf(
                           BeforeHelp(Table, lastOp'.key, lastOp'.val).map2[1]) :
                   e[1] \in KeysOf(map1')]_vars

\* C38's case: a migration that took more than one insert has ended with
\* this insert: map2 is released and map1 holds what both tables held.
C38_Witness ==
    /\ lastOp.op = "insert"
    /\ ~Resizing
    /\ resizing_pos = 0
    /\ Len(map1.data) = 64
    /\ StoredIn(map1) >= 2 * (MAX_RESIZING_WORK + 1)

\* C39: insert starts a resize only when no map2 is present, whatever
\* inserts and removes came before; and a key that get finds is not found
\* after a step only when the step is a remove of that key.
C39_NoResizeWhileResizing ==
    /\ [][(lastOp'.op = "insert"
             /\ StartsResize(Table, lastOp'.key, lastOp'.val))
            => ~Resizing]_vars
    /\ [][\A k \in Inserted :
             (GetNow(k) # None /\ SuperHashMap_get(Table', k) = None)
                => lastOp'.op = "remove" /\ lastOp'.key = k]_vars

\* C39's case: after inserts and a remove, an insert has started a resize
\* whose migration takes more than this insert.
C39_Witness ==
    /\ lastOp.op = "insert"
    /\ gone # {}
    /\ Resizing
    /\ resizing_pos > 0
    /\ StoredIn(map1) = MAX_RESIZING_WORK + 1

\* do_read_request is running on c, or poll reports POLLIN for it.
CanRead(c) ==
    /\ server = "running"
    /\ \/ cur = c
       \/ /\ cur = 0
          /\ c \in DOMAIN connections
          /\ connections[c].state = "ReadRequest"
          /\ pending[c] # <<>> \/ peer[c] = "hungup"

\* poll reports POLLOUT for c.
CanSend(c) ==
    /\ server = "running"
    /\ cur = 0
    /\ c \in DOMAIN connections
    /\ connections[c].state = "SendResponse"

\* Every request of peer c was read and executed, every response to it was
\* written whole, and the connection is in ReadRequest.
Answered(c) ==
    \/ script[c] = <<>>
    \/ /\ Quiet(c)
       /\ Len(Executed(c)) >= Len(script[c])
       /\ sent[c] = Frames(Executed(c))

\* The server has a step to take for c, or in the handler that is running.
Served(c) ==
    \/ CanRead(c)
    \/ CanSend(c)
    \/ server = "running" /\ cur \in Clients \ {c}

\* C40: under fair polling, with peers that send well-formed requests, keep
\* reading and never close, every request is answered whole in the end and
\* the server never stops serving a connection. Stated so that a finite run
\* refutes it: a step taken while no peer has closed or withdraws leaves the
\* server running and every connection in the map, and after it every
\* connection either has all its peer's requests answered, in ReadRequest,
\* or has a step of the server to come.
C40_ServedToTheEnd ==
    [][(/\ raw = NoRaw
        /\ \A d \in Clients : peer[d] # "hungup" /\ peer'[d] # "withdrawn")
         => \A c \in DOMAIN connections :
               /\ server' = "running"
               /\ c \in DOMAIN connections'
               /\ Answered(c)' \/ Served(c)']_vars
====
